---- MODULE Spec2Model ----
(***************************************************************************)
(* A model of the yapl-js execution engine (patrickjm/yapl):               *)
(*   - the configuration resolver (executeChain's output case feeding      *)
(*     resolveConfig), checked under SpecCfg;                              *)
(*   - the multi-chain scheduler loop of Yapl._call, checked under         *)
(*     SpecSched, under SpecSchedFair for termination, and under SpecPair  *)
(*     for two invocations that interleave;                                *)
(*   - executeOutput (cache lookup, provider/tool loop, cache store),      *)
(*     checked under SpecOut for one call and under SpecCache for calls    *)
(*     made in sequence over one cache.                                    *)
(* The specifications share the module's variables; each leaves the        *)
(* variables of the other parts at their initial values.                   *)
(***************************************************************************)
EXTENDS Integers, Sequences, FiniteSets, TLC

VARIABLES
    \* ---- two concurrent invocations of one loaded program (SpecPair)
    pairCall,       \* per invocation: where its _call is
    pairSatisfied,  \* per invocation: its satisfied array
    pairNext,       \* per invocation: the chains of its current wave
    pairResults,    \* per invocation: the chains its results object has an entry for
    pairChain,      \* per invocation and chain: where the executeChain call is
    pairBuiltins,   \* the invocation whose results object builtins.chains refers to
    pairSeen,       \* per invocation and chain: whose results it rendered against
    \* ---- configuration resolver (SpecCfg)
    cfgIn,          \* the document / instruction / engine fields of one output call
    cfgOut,         \* what executeChain + resolveConfig produced for it
    \* ---- resolveConfig called on its own (SpecRes)
    resIn,          \* the options of one resolveConfig call: output and defaults
    resOut,         \* what the call returned or threw
    \* ---- validation at load (SpecVal, SpecLoad)
    valDoc,         \* the parsed document handed to loadString
    valOut,         \* what validateSchema did inside the load call
    program,        \* loadString returned a program function
    programCalls,   \* calls of the program function made so far
    engineOps,      \* provider, tool and cache operations performed for the document
    \* ---- executeChain and the CallResult (SpecChain)
    chDoc,          \* the parsed document's messages, as the program closure holds them
    chLoaded,       \* the messages as they were when the load call returned
    chKind,         \* "single", or "multi" with one named chain
    chName,         \* the chain's id: DEFAULT_OUTPUT_ID for "single", its name for "multi"
    hasLogger,      \* opts.logger is configured
    chInputs,       \* the value of input x in the current invocation
    chTape,         \* the instruction tape built by messagesToInstructions
    chIp,           \* index of the next instruction of the tape
    chMsgs,         \* `msgs`, the live history of executeChain
    chOutputs,      \* `outputs`, the chain's outputs map
    builtinOutputs, \* builtins.outputs, as created by the load call
    builtinChains,  \* the chain ids that have a result in builtins.chains
    chContext,      \* context.outputs of the latest renderInstruction call
    chState,        \* the _call promise: "idle", "running", "resolved", "rejected"
    chError,        \* what the promise rejected with
    chResult,       \* the CallResult the promise resolved with
    chExecs,        \* executeChain calls of the current invocation
    chWarnings,     \* logger.warn calls of the current invocation
    chInv,          \* invocations of the loaded program started so far
    \* ---- cost accounting of one wave (SpecCost)
    engineCost,     \* Yapl._cost
    outputCost,     \* per chain: `_cost` of the executeOutput call it is awaiting
    costPhase,      \* per chain: "idle", "running", "output", "answered", "done", "failed"
    outputsLeft,    \* per chain: output instructions still to execute
    costBefore,     \* Yapl._cost when the invocation started
    provided,       \* sum of the costs the provider calls of the invocation returned
    providerBudget, \* provider calls the invocation may still make
    costCall,       \* the _call promise: "idle", "wave", "resolved", "rejected"
    costInv,        \* invocations started so far
    \* ---- scheduler (SpecSched)
    dependsOn,      \* data.chains[name].dependsOn, per declared chain
    satisfied,      \* the `satisfied` array of _call
    results,        \* the `results` record of _call: chains that have a result
    builtinsChains, \* builtins.chains as templates see it
    next,           \* the `next` array of the wave in flight
    chainState,     \* per chain: position of its executeChain promise in the wave
    seenAtRender,   \* per chain: builtins.chains it rendered its first instruction against
    runs,           \* per chain: executeChain calls made for it in this invocation
    invNo,          \* invocations of the loaded program started so far
    callState,      \* the _call promise: "idle", "loop", "wave", "resolved", "rejected"
    callError,      \* the chain whose error the _call promise rejected with
    \* ---- executeOutput (SpecOut, SpecCache)
    pc,             \* position inside executeOutput
    hasCache,       \* opts.cache is configured
    messages,       \* the pre-call history handed to executeOutput
    config,         \* resolveConfig's result for the call
    allMessages,    \* the running history
    toolCalls,      \* tool calls of the last provider response (hasCalls: key present)
    callIdx,        \* index of the tool call the for-loop is at
    cost,           \* _cost, number of cost units accumulated by the call
    cache,          \* the cache store: set of [key, value] entries
    cachePending,   \* cache.set calls issued whose promise has not settled
    cached,         \* the `cached` constant of the call: what cache.get resolved with
    returned,       \* what the call returned: [ok, messages, cost]
    error,          \* what the call threw: [kind, tool]
    chainStatus,    \* the executeChain promise awaiting the call
    invocation,     \* the _call promise awaiting that chain
    providerCalls,  \* provider.execute invocations of the current call
    toolRounds,     \* provider responses of the current call that carried >= 1 tool call
    execLog,        \* tool.function.execute invocations of the current call
    throwLog,       \* ids of the tool calls whose execute threw, current call
    setIssued,      \* cache.set was called by the current call
    budget,         \* tool calls requested so far in the whole run
    outputCalls,    \* executeOutput calls started so far
    prev            \* the previous completed call: [valid, messages, config, history]

cfgVars == <<cfgIn, cfgOut>>
resVars == <<resIn, resOut>>
valVars == <<valDoc, valOut, program, programCalls, engineOps>>
schedVars == <<dependsOn, satisfied, results, builtinsChains, next, chainState,
               seenAtRender, runs, invNo, callState, callError>>
outVars == <<pc, hasCache, messages, config, allMessages, toolCalls, callIdx, cost,
             cache, cachePending, cached, returned, error, chainStatus, invocation,
             providerCalls, toolRounds, execLog, throwLog, setIssued, budget,
             outputCalls, prev>>
chVars == <<chDoc, chLoaded, chKind, chName, hasLogger, chInputs, chTape, chIp, chMsgs,
            chOutputs, builtinOutputs, builtinChains, chContext, chState, chError, chResult,
            chExecs, chWarnings, chInv>>
costVars == <<engineCost, outputCost, costPhase, outputsLeft, costBefore, provided,
              providerBudget, costCall, costInv>>
pairVars == <<pairCall, pairSatisfied, pairNext, pairResults, pairChain, pairBuiltins,
              pairSeen>>
vars == <<cfgVars, resVars, valVars, schedVars, outVars, chVars, costVars, pairVars>>

(***************************************************************************)
(* Values.  `undefined` is a value of its own; a model is undefined, a     *)
(* string or an object {name}; a tool list is undefined or an array.       *)
(***************************************************************************)
Absent == "<undefined>"

Undef == [kind |-> "undefined", name |-> ""]

Str(n) == [kind |-> "string", name |-> n]

Obj(n) == [kind |-> "object", name |-> n]

NoTools == [present |-> FALSE, names |-> <<>>]

Tools(names) == [present |-> TRUE, names |-> names]

\* JavaScript truthiness of a model value: undefined and "" are falsy, an object is truthy
Truthy(m) == \/ m.kind = "object"
             \/ m.kind = "string" /\ m.name # ""

\* m?.name : a string has no `name` property
NameOf(m) == IF m.kind = "object" THEN m.name ELSE ""

\* a ?? b on provider names
Coalesce(a, b) == IF a = Absent THEN b ELSE a

\* a ?? b on model values
CoalesceModel(a, b) == IF a.kind = "undefined" THEN b ELSE a

\* a ?? b on tool lists
CoalesceTools(a, b) == IF a.present THEN a ELSE b

\* a || b on provider names: undefined and "" are falsy
OrElse(a, b) == IF a = Absent \/ a = "" THEN b ELSE a

toModel(m) == IF ~Truthy(m) THEN Undef
              ELSE IF m.kind = "string" THEN Obj(m.name)
              ELSE m

Range(s) == {s[i] : i \in 1..Len(s)}

RECURSIVE DedupFrom(_, _)
DedupFrom(s, acc) ==
    IF s = <<>> THEN acc
    ELSE IF Head(s) \in Range(acc) THEN DedupFrom(Tail(s), acc)
    ELSE DedupFrom(Tail(s), Append(acc, Head(s)))

\* Array.from(new Set(names)): first occurrence of each name, in order
Dedup(s) == DedupFrom(s, <<>>)

(***************************************************************************)
(* The configuration resolver.                                             *)
(***************************************************************************)
RegisteredProviders == {"pO", "pC", "pD", "pE"}

RegisteredTools == {"t1", "t2", "t3"}

CfgError(e) == [ok |-> FALSE, error |-> e, provider |-> Absent, model |-> Undef,
                tools |-> <<>>]

\* resolveConfig's choice of _model: reply.model unless it is falsy or has no name
ResolveModel(reply, defaults) ==
    IF ~Truthy(reply.model) \/ NameOf(reply.model) = "" THEN defaults.model
    ELSE reply.model

\* resolveConfig's choice of _providerName
ResolveProviderName(reply, defaults) == OrElse(reply.provider, defaults.provider)

\* mutant of ResolveToolNames: an empty array counts as missing
ResolveToolNamesEmptyFallsBack(reply, defaults) ==
    Dedup(IF reply.tools.present /\ reply.tools.names # <<>> THEN reply.tools.names
          ELSE IF defaults.tools.present THEN defaults.tools.names
          ELSE <<>>)

\* resolveConfig's choice of _toolNames: an array, even an empty one, is truthy
ResolveToolNames(reply, defaults) ==
    Dedup(IF reply.tools.present THEN reply.tools.names
          ELSE IF defaults.tools.present THEN defaults.tools.names
          ELSE <<>>)

resolveConfig(reply, defaults) ==
    LET _model == ResolveModel(reply, defaults)
        _providerName == ResolveProviderName(reply, defaults)
        _toolNames == ResolveToolNames(reply, defaults)
    IN  IF ~Truthy(_model) THEN CfgError("No model found")
        ELSE IF _providerName = Absent \/ _providerName = "" THEN CfgError("No provider found")
        ELSE IF _providerName \notin RegisteredProviders THEN CfgError("Provider not found")
        ELSE IF \E i \in 1..Len(_toolNames) : _toolNames[i] \notin RegisteredTools
             THEN CfgError("Tool not found")
        ELSE [ok |-> TRUE, error |-> "", provider |-> _providerName, model |-> _model,
              tools |-> _toolNames]

\* messagesToInstructions: the output instruction built from {output: {...}}
OutputInstruction(in) ==
    [provider |-> in.outProvider, model |-> toModel(in.outModel), tools |-> in.outTools]

\* Yapl._call: the chain handed to executeChain for a single-chain document
SingleChain(in) ==
    [model |-> toModel(CoalesceModel(in.docModel, in.defModel)),
     provider |-> Coalesce(in.docProvider, in.defProvider),
     tools |-> CoalesceTools(in.docTools, in.defTools)]

\* Yapl._call: the chain handed to executeChain for a chain of a multi-chain document
MultiChain(in) ==
    [model |-> CoalesceModel(in.chainModel, in.docModel),
     provider |-> Coalesce(in.chainProvider, in.docProvider),
     tools |-> in.chainTools]

ChainOf(in) == IF in.kind = "single" THEN SingleChain(in) ELSE MultiChain(in)

\* executeChain, output case: const tools = [...(chain.tools ?? []), ...(output.tools ?? [])]
MergeTools(chain, output) ==
    Tools(CoalesceTools(chain.tools, Tools(<<>>)).names
          \o CoalesceTools(output.tools, Tools(<<>>)).names)

\* executeChain, output case: the `output` option handed to executeOutput
OutputOption(chain, output) ==
    [model |-> toModel(CoalesceModel(output.model, chain.model)),
     provider |-> Coalesce(output.provider, chain.provider),
     tools |-> MergeTools(chain, output)]

EngineDefaults(in) ==
    [provider |-> in.defProvider, model |-> in.defModel, tools |-> in.defTools]

\* the configuration one output call of the chain executor runs with; the model
\* is what executeOutput hands the provider, toModel(config.model)
EffectiveConfig(in) ==
    LET c == resolveConfig(OutputOption(ChainOf(in), OutputInstruction(in)),
                           EngineDefaults(in))
    IN  [c EXCEPT !.model = toModel(c.model)]

\* the fields of one output call: the document (single chain, or one chain of a
\* multi-chain document), its output instruction, and YaplOptions.defaults
CfgInputs ==
    LET OutProviders == {Absent, "", "pO"}
        OutModels == {Undef, Str(""), Str("mO"), Obj(""), Obj("mO")}
        OutTools == {NoTools, Tools(<<>>), Tools(<<"t1">>), Tools(<<"t2", "t1", "t2">>)}
        LevelTools == {NoTools, Tools(<<>>), Tools(<<"t2">>)}
        Single == [kind : {"single"},
                   docProvider : {Absent, "pD"}, docModel : {Undef, Str("mD")},
                   docTools : LevelTools,
                   chainProvider : {Absent}, chainModel : {Undef}, chainTools : {NoTools},
                   outProvider : OutProviders, outModel : OutModels, outTools : OutTools,
                   defProvider : {Absent, "pE"}, defModel : {Undef, Obj("mE")},
                   defTools : {NoTools, Tools(<<"t3">>)}]
        Multi ==  [kind : {"multi"},
                   docProvider : {Absent, "pD"}, docModel : {Undef, Str("mD")},
                   docTools : {NoTools},
                   chainProvider : {Absent, "pC"}, chainModel : {Undef, Str("mC")},
                   chainTools : LevelTools,
                   outProvider : OutProviders, outModel : OutModels, outTools : OutTools,
                   defProvider : {Absent, "pE"}, defModel : {Undef, Obj("mE")},
                   defTools : {NoTools, Tools(<<"t3">>)}]
    IN  Single \cup Multi

CfgIdle == [kind |-> "none",
            docProvider |-> Absent, docModel |-> Undef, docTools |-> NoTools,
            chainProvider |-> Absent, chainModel |-> Undef, chainTools |-> NoTools,
            outProvider |-> Absent, outModel |-> Undef, outTools |-> NoTools,
            defProvider |-> Absent, defModel |-> Undef, defTools |-> NoTools]

CfgPending == [done |-> FALSE, cfg |-> CfgError("")]

CfgInitIdle == cfgIn = CfgIdle /\ cfgOut = CfgPending

\* the chain executor reaches the output instruction and resolves its configuration
ResolveOutputCall ==
    /\ cfgIn.kind # "none"
    /\ ~cfgOut.done
    /\ cfgOut' = [done |-> TRUE, cfg |-> EffectiveConfig(cfgIn)]
    /\ UNCHANGED cfgIn

(***************************************************************************)
(* resolveConfig called on its own, as its tests call it: the options are  *)
(* {output: {provider, model, tools}, defaults: {provider, model, tools}}, *)
(* each field a value, null or undefined.                                  *)
(***************************************************************************)
\* the tool names in _toolNames that tools.find does not find, in order
UnregisteredIn(names) ==
    LET NotFound(n) == n \notin RegisteredTools
    IN  SelectSeq(names, NotFound)

\* what a resolveConfig call does: the configuration it returns, or the error
\* it throws with the name the message carries (of the provider or of the
\* first tool that is not found)
resolveConfigOutcome(reply, defaults) ==
    LET c == resolveConfig(reply, defaults)
        named == IF c.error = "Provider not found"
                   THEN ResolveProviderName(reply, defaults)
                 ELSE IF c.error = "Tool not found"
                   THEN Head(UnregisteredIn(ResolveToolNames(reply, defaults)))
                 ELSE ""
    IN  [ok |-> c.ok, error |-> c.error, names |-> named, provider |-> c.provider,
         model |-> c.model, tools |-> c.tools]

\* the options the calls are made with; "pX" and "tX" are not registered
ResInputs ==
    [provider : {Absent, "", "pO", "pX"},
     model : {Undef, Obj(""), Obj("mO")},
     tools : {NoTools, Tools(<<>>), Tools(<<"t1">>), Tools(<<"t2", "t1", "t2">>),
              Tools(<<"t1", "tX", "tY">>)},
     defProvider : {Absent, "", "pE", "pX"},
     defModel : {Undef, Obj(""), Obj("mE")},
     defTools : {NoTools, Tools(<<>>), Tools(<<"t3">>), Tools(<<"tX">>)}]

ResIdle == [provider |-> Absent, model |-> Undef, tools |-> NoTools,
            defProvider |-> Absent, defModel |-> Undef, defTools |-> NoTools]

ResPending == [done |-> FALSE, out |-> resolveConfigOutcome(
                  [provider |-> Absent, model |-> Undef, tools |-> NoTools],
                  [provider |-> Absent, model |-> Undef, tools |-> NoTools])]

ResInitIdle == resIn = ResIdle /\ resOut = ResPending

ResReply(in) == [provider |-> in.provider, model |-> in.model, tools |-> in.tools]

ResDefaults(in) == [provider |-> in.defProvider, model |-> in.defModel, tools |-> in.defTools]

\* resolveConfig(options) is called
ResolveCall ==
    /\ ~resOut.done
    /\ resOut' = [done |-> TRUE,
                  out |-> resolveConfigOutcome(ResReply(resIn), ResDefaults(resIn))]
    /\ UNCHANGED resIn

(***************************************************************************)
(* Validation at load: validateSchema and validateChainDependencies.       *)
(* Chains are numbered in document order; a dependsOn list is a sequence   *)
(* of names, and a name outside the chains map is an undeclared chain.     *)
(***************************************************************************)
MaxValChains == 3

MaxDeps == 2

MaxTape == 3

\* names a dependsOn list can hold: the chains a document of MaxValChains
\* chains declares, and one more that no document declares
DepNames == 1..(MaxValChains + 1)

SeqsUpTo(S, n) == UNION {[1..k -> S] : k \in 0..n}

NoChain == 0

DfsFresh == [visited |-> {}, currentPath |-> <<>>]

DfsResult(res, st) ==
    [res |-> res, visited |-> st.visited, currentPath |-> st.currentPath,
     missing |-> NoChain, dependent |-> NoChain]

\* mutant of OnCurrentPath: the traversal keeps no path, only the visited set
OnCurrentPathNever(chain, st) == FALSE

\* currentPath.includes(chain)
OnCurrentPath(chain, st) == chain \in Range(st.currentPath)

\* mutant of DependentChain: the chain the traversal started at
DependentChainIsRoot(path) == path[1]

\* currentPath[currentPath.length - 2]: the previous chain in the path
DependentChain(path) == path[Len(path) - 1]

RECURSIVE dfs(_, _, _)
RECURSIVE dfsEach(_, _, _)
\* dfs(chain): "true" when a chain of the current path is met again, "false"
\* when the chain is explored (or was before), "throw" for an undeclared chain
dfs(chains, chain, st) ==
    IF OnCurrentPath(chain, st) THEN DfsResult("true", st)
    ELSE IF chain \in st.visited THEN DfsResult("false", st)
    ELSE LET pushed == [visited |-> st.visited \cup {chain},
                        currentPath |-> Append(st.currentPath, chain)]
         IN  IF chain \notin DOMAIN chains
             THEN [DfsResult("throw", pushed) EXCEPT
                      !.missing = chain,
                      !.dependent = DependentChain(pushed.currentPath)]
             ELSE LET r == dfsEach(chains, chains[chain], pushed)
                  IN  IF r.res = "false"
                      THEN [r EXCEPT !.currentPath =
                                        SubSeq(r.currentPath, 1, Len(r.currentPath) - 1)]
                      ELSE r

\* for (const dependency of chains[chain].dependsOn) if (dfs(dependency)) return true
dfsEach(chains, list, st) ==
    IF list = <<>> THEN DfsResult("false", st)
    ELSE LET r == dfs(chains, Head(list), st)
         IN  IF r.res = "false"
             THEN dfsEach(chains, Tail(list),
                          [visited |-> r.visited, currentPath |-> r.currentPath])
             ELSE r

ValOk == [ok |-> TRUE, kind |-> "", chain |-> NoChain, other |-> NoChain, name |-> ""]

ValError(kind, chain, other, name) ==
    [ok |-> FALSE, kind |-> kind, chain |-> chain, other |-> other, name |-> name]

RECURSIVE DependenciesFrom(_, _, _)
\* for (const chain in chains) if (dfs(chain)) throw Circular dependency ... "chain"
DependenciesFrom(chains, i, st) ==
    IF i > Len(chains) THEN ValOk
    ELSE LET r == dfs(chains, i, st)
         IN  IF r.res = "true" THEN ValError("Circular", i, NoChain, "")
             ELSE IF r.res = "throw"
                  THEN ValError("Undeclared", r.missing, r.dependent, "")
             ELSE DependenciesFrom(chains, i + 1,
                                   [visited |-> r.visited, currentPath |-> r.currentPath])

validateChainDependencies(chains) == DependenciesFrom(chains, 1, DfsFresh)

DEFAULT_OUTPUT_ID == "default"

\* an element of a chain's messages: a message to push, or an output (the
\* literal "output" and {output: {}} carry no id)
PushItem == [output |-> FALSE, id |-> Absent]

OutputItem(id) == [output |-> TRUE, id |-> id]

\* instr.output.id is truthy
HasId(item) == item.output /\ item.id # Absent /\ item.id # ""

\* mutant of AlreadyNamed: the names seen are not remembered
AlreadyNamedNever(id, outputNames) == FALSE

\* outputNames.has(instr.output.id)
AlreadyNamed(id, outputNames) == id \in outputNames

\* mutant of NotLastMessage: the position is compared with the one before the last
NotLastMessageOffByOne(i, tape) == i # Len(tape) - 1

\* i !== chains[chain].chain.messages.length - 1, i counted from 1 here
NotLastMessage(i, tape) == i # Len(tape)

RECURSIVE OutputNamesFrom(_, _, _, _)
\* the loop over a chain's messages, i counted from 1: duplicate names, and
\* the default id anywhere but at messages.length - 1
OutputNamesFrom(chain, tape, i, outputNames) ==
    IF i > Len(tape) THEN ValOk
    ELSE IF ~HasId(tape[i]) THEN OutputNamesFrom(chain, tape, i + 1, outputNames)
    ELSE IF AlreadyNamed(tape[i].id, outputNames)
         THEN ValError("DuplicateOutput", chain, NoChain, tape[i].id)
    ELSE IF tape[i].id = DEFAULT_OUTPUT_ID /\ NotLastMessage(i, tape)
         THEN ValError("DefaultNotLast", chain, NoChain, tape[i].id)
    ELSE OutputNamesFrom(chain, tape, i + 1, outputNames \cup {tape[i].id})

RECURSIVE OutputsFrom(_, _)
\* for (const chain in chains): each chain starts with an empty outputNames
OutputsFrom(tapes, c) ==
    IF c > Len(tapes) THEN ValOk
    ELSE LET r == OutputNamesFrom(c, tapes[c], 1, {})
         IN  IF r.ok THEN OutputsFrom(tapes, c + 1) ELSE r

\* Object.keys(builtinInputs)
BuiltinKeys == {"chains", "outputs"}

\* for (const i of schema.inputs ?? []): the first declared input that is a
\* key of the builtins
ReservedInputs(inputs) ==
    LET IsReserved(i) == i \in BuiltinKeys
        hits == SelectSeq(inputs, IsReserved)
    IN  IF hits = <<>> THEN ValOk
        ELSE ValError("ReservedInput", NoChain, NoChain, Head(hits))

\* validateSchema(path, schema, builtinInputs): the first check that throws
validateSchema(doc) ==
    LET deps == IF doc.kind = "multi" THEN validateChainDependencies(doc.deps) ELSE ValOk
    IN  IF ~deps.ok THEN deps
        ELSE IF ~OutputsFrom(doc.tapes, 1).ok THEN OutputsFrom(doc.tapes, 1)
        ELSE ReservedInputs(doc.inputs)

MaxInputs == 2

MaxProgramCalls == 1

MaxEngineOps == 2

RECURSIVE Ascending(_)
\* the names of a set as a list, smallest first
Ascending(S) ==
    IF S = {} THEN <<>>
    ELSE LET m == CHOOSE x \in S : \A y \in S : x <= y
         IN  <<m>> \o Ascending(S \ {m})

\* the dependsOn lists of the documents: up to MaxDeps distinct names, written
\* in ascending order
DepLists == {Ascending(S) : S \in {T \in SUBSET DepNames : Cardinality(T) <= MaxDeps}}

TapeItems == {PushItem, OutputItem(Absent), OutputItem(""), OutputItem("a"),
              OutputItem(DEFAULT_OUTPUT_ID)}

InputNames == {"x", "outputs", "chains"}

\* multi-chain documents that differ in their dependency maps
DepDocs ==
    UNION {[kind : {"multi"}, deps : [1..n -> DepLists], tapes : {[c \in 1..n |-> <<>>]},
            inputs : {<<>>}, chainInputs : {[c \in 1..n |-> <<>>]}] : n \in 0..MaxValChains}

\* documents that differ in their messages: a single top-level chain, and two
\* named chains (without dependencies, or depending on each other)
TapeDocs ==
    [kind : {"single"}, deps : {<<>>}, tapes : [1..1 -> SeqsUpTo(TapeItems, MaxTape)],
     inputs : {<<>>}, chainInputs : {<<>>}]
    \cup
    [kind : {"multi"}, deps : {<< <<>>, <<>> >>, << <<2>>, <<1>> >>},
     tapes : [1..2 -> SeqsUpTo(TapeItems, MaxTape - 1)],
     inputs : {<<>>}, chainInputs : {<< <<>>, <<>> >>}]

\* documents that differ in their declared inputs: at the top level, and in
\* the chain of a named chain
InputDocs ==
    [kind : {"single"}, deps : {<<>>}, tapes : {<< <<>> >>},
     inputs : SeqsUpTo(InputNames, MaxInputs), chainInputs : {<<>>}]
    \cup
    [kind : {"multi"}, deps : {<< <<>> >>}, tapes : {<< <<>> >>},
     inputs : SeqsUpTo(InputNames, MaxInputs),
     chainInputs : [1..1 -> SeqsUpTo(InputNames, MaxInputs)]]

ValDocs == DepDocs \cup TapeDocs \cup InputDocs

\* the documents the program calls are followed for: those of fewer than
\* MaxValChains chains
LoadDocs == {d \in ValDocs : Len(d.tapes) < MaxValChains}

NoDoc == [kind |-> "none", deps |-> <<>>, tapes |-> <<>>, inputs |-> <<>>,
          chainInputs |-> <<>>]

ValPending == [done |-> FALSE, out |-> ValOk]

ValFresh ==
    /\ valOut = ValPending
    /\ program = FALSE
    /\ programCalls = 0
    /\ engineOps = 0

ValInitIdle == valDoc = NoDoc /\ ValFresh

\* mutant of LoadString: the program function is returned without waiting for
\* the validation's verdict
LoadStringUnvalidated ==
    /\ valDoc.kind # "none"
    /\ ~valOut.done
    /\ valOut' = [done |-> TRUE, out |-> validateSchema(valDoc)]
    /\ program' = TRUE
    /\ UNCHANGED <<valDoc, programCalls, engineOps>>

\* loadString(yml): the parsed document is validated; the program function is
\* returned when validateSchema returns, the load call throws when it throws
LoadString ==
    /\ valDoc.kind # "none"
    /\ ~valOut.done
    /\ valOut' = [done |-> TRUE, out |-> validateSchema(valDoc)]
    /\ program' = validateSchema(valDoc).ok
    /\ UNCHANGED <<valDoc, programCalls, engineOps>>

\* the caller calls the program function it was given: _call runs
CallProgram ==
    /\ program
    /\ programCalls < MaxProgramCalls
    /\ programCalls' = programCalls + 1
    /\ UNCHANGED <<valDoc, valOut, program, engineOps>>

\* inside a call: executeOutput looks up or stores in the cache, calls the
\* provider or executes a tool
EngineOperation ==
    /\ programCalls > 0
    /\ engineOps < MaxEngineOps
    /\ engineOps' = engineOps + 1
    /\ UNCHANGED <<valDoc, valOut, program, programCalls>>

(***************************************************************************)
(* The multi-chain scheduler: Yapl._call on a validated multi-chain        *)
(* document.  Chains are numbered in document order (Object.entries).      *)
(* executeChain is a promise per chain: started, first instruction         *)
(* rendered, resolved or rejected.                                         *)
(***************************************************************************)
MaxChains == 3

MaxInvocations == 2

ChainNames == 1..MaxChains

Declared == DOMAIN dependsOn

RECURSIVE ReachableIn(_, _, _)
ReachableIn(deps, from, k) ==
    IF k = 0 THEN from
    ELSE ReachableIn(deps, from \cup UNION {deps[c] : c \in from}, k - 1)

\* what validateChainDependencies accepts: every dependency declared, no cycle
Validated(deps) ==
    /\ \A c \in DOMAIN deps : deps[c] \subseteq DOMAIN deps
    /\ \A c \in DOMAIN deps : c \notin ReachableIn(deps, deps[c], Cardinality(DOMAIN deps))

Documents ==
    UNION {{deps \in [1..n -> SUBSET (1..n)] : Validated(deps)} : n \in 1..MaxChains}

NoResult == [inv |-> 0, run |-> 0]

\* mutant of Ready: the filter lets a chain through whatever its dependencies
ReadyIgnoringDeps(c, sat) == TRUE

\* (chain.dependsOn ?? []).every(dep => satisfied.includes(dep))
Ready(c, sat) == \A dep \in dependsOn[c] : dep \in Range(sat)

\* mutant of NextWave: the filter drops the chains that have no dependency
NextWaveWithoutRoots(sat) ==
    LET order == [i \in 1..Cardinality(Declared) |-> i]
        Test(c) == dependsOn[c] # {} /\ Ready(c, sat)
    IN  SelectSeq(order, Test)

\* const next = Object.entries(data.chains).filter(...).map(([name]) => name)
NextWave(sat) ==
    LET order == [i \in 1..Cardinality(Declared) |-> i]
        Test(c) == Ready(c, sat)
    IN  SelectSeq(order, Test)

\* while (satisfied.length < Object.keys(data.chains).length)
LoopContinues(sat) == Len(sat) < Cardinality(Declared)

NoChainError == 0

SchedFresh ==
    /\ satisfied = <<>>
    /\ results = [c \in ChainNames |-> NoResult]
    /\ builtinsChains = [c \in ChainNames |-> NoResult]
    /\ next = <<>>
    /\ chainState = [c \in ChainNames |-> "idle"]
    /\ seenAtRender = [c \in ChainNames |-> [d \in ChainNames |-> NoResult]]
    /\ runs = [c \in ChainNames |-> 0]
    /\ invNo = 0
    /\ callState = "idle"
    /\ callError = NoChainError

SchedInitIdle == dependsOn = <<>> /\ SchedFresh

\* loadFile / loadString: the document is validated, builtins start empty
SchedInit == dependsOn \in Documents /\ SchedFresh

Running(c) == chainState[c] \in {"started", "rendered"}

\* the program function is called: _call starts with fresh results and satisfied;
\* builtins is the object created at load
Invoke ==
    /\ callState \in {"idle", "resolved", "rejected"}
    /\ \A c \in ChainNames : ~Running(c)
    /\ invNo < MaxInvocations
    /\ invNo' = invNo + 1
    /\ callState' = "loop"
    /\ callError' = NoChainError
    /\ satisfied' = <<>>
    /\ results' = [c \in ChainNames |-> NoResult]
    /\ next' = <<>>
    /\ chainState' = [c \in ChainNames |-> "idle"]
    /\ seenAtRender' = [c \in ChainNames |-> [d \in ChainNames |-> NoResult]]
    /\ runs' = [c \in ChainNames |-> 0]
    /\ UNCHANGED <<dependsOn, builtinsChains>>

\* one iteration of the while loop up to the await: next is computed and
\* executeChain is called for each of its chains
WaveStart ==
    /\ callState = "loop"
    /\ LoopContinues(satisfied)
    /\ next' = NextWave(satisfied)
    /\ chainState' = [c \in ChainNames |->
                        IF c \in Range(NextWave(satisfied)) THEN "started" ELSE chainState[c]]
    /\ runs' = [c \in ChainNames |->
                        IF c \in Range(NextWave(satisfied)) THEN runs[c] + 1 ELSE runs[c]]
    /\ callState' = "wave"
    /\ UNCHANGED <<dependsOn, satisfied, results, builtinsChains, seenAtRender, invNo,
                   callError>>

\* executeChain renders its first instruction against {...inputs, ...builtins}
ChainRender(c) ==
    /\ chainState[c] = "started"
    /\ chainState' = [chainState EXCEPT ![c] = "rendered"]
    /\ seenAtRender' = [seenAtRender EXCEPT ![c] = builtinsChains]
    /\ UNCHANGED <<dependsOn, satisfied, results, builtinsChains, next, runs, invNo,
                   callState, callError>>

\* mutant of ChainFinish: the chain writes its result into builtins.chains
\* itself when it returns
ChainFinishPublishes(c) ==
    /\ chainState[c] = "rendered"
    /\ chainState' = [chainState EXCEPT ![c] = "done"]
    /\ builtinsChains' = [builtinsChains EXCEPT ![c] = [inv |-> invNo, run |-> runs[c]]]
    /\ UNCHANGED <<dependsOn, satisfied, results, next, seenAtRender,
                   runs, invNo, callState, callError>>

\* executeChain returns {messages, outputs}
ChainFinish(c) ==
    /\ chainState[c] = "rendered"
    /\ chainState' = [chainState EXCEPT ![c] = "done"]
    /\ UNCHANGED <<dependsOn, satisfied, results, builtinsChains, next, seenAtRender,
                   runs, invNo, callState, callError>>

\* mutant of ChainFail: the chain's error is caught and the wave goes on
\* waiting
ChainFailSwallowed(c) ==
    /\ Running(c)
    /\ chainState' = [chainState EXCEPT ![c] = "failed"]
    /\ UNCHANGED <<callState, callError>>
    /\ UNCHANGED <<dependsOn, satisfied, results, builtinsChains, next, seenAtRender,
                   runs, invNo>>

\* executeChain throws: Promise.all rejects with the first rejection of the
\* wave and so does _call, which awaits it without a catch; the other chains
\* of the wave keep running and a later rejection changes nothing
ChainFail(c) ==
    /\ Running(c)
    /\ chainState' = [chainState EXCEPT ![c] = "failed"]
    /\ callState' = IF callState = "wave" THEN "rejected" ELSE callState
    /\ callError' = IF callState = "wave" THEN c ELSE callError
    /\ UNCHANGED <<dependsOn, satisfied, results, builtinsChains, next, seenAtRender,
                   runs, invNo>>

\* mutant of WaveEnd: the wave is awaited with allSettled, and the loop goes
\* on with the chains that returned once every chain of the wave has settled
WaveEndAllSettled ==
    /\ callState \in {"wave", "rejected"}
    /\ \A c \in Range(next) : chainState[c] \in {"done", "failed"}
    /\ LET recorded == [c \in ChainNames |->
                          IF c \in Range(next) /\ chainState[c] = "done"
                          THEN [inv |-> invNo, run |-> runs[c]]
                          ELSE results[c]]
       IN  /\ results' = recorded
           /\ builtinsChains' = recorded
    /\ satisfied' = satisfied \o next
    /\ chainState' = [c \in ChainNames |-> "idle"]
    /\ callState' = "loop"
    /\ UNCHANGED <<dependsOn, next, seenAtRender, runs, invNo, callError>>

\* Promise.all resolved: results are recorded, builtins.chains = results,
\* satisfied.push(...next)
WaveEnd ==
    /\ callState = "wave"
    /\ \A c \in Range(next) : chainState[c] = "done"
    /\ LET recorded == [c \in ChainNames |->
                          IF c \in Range(next) THEN [inv |-> invNo, run |-> runs[c]]
                          ELSE results[c]]
       IN  /\ results' = recorded
           /\ builtinsChains' = recorded
    /\ satisfied' = satisfied \o next
    /\ chainState' = [c \in ChainNames |-> "idle"]
    /\ callState' = "loop"
    /\ UNCHANGED <<dependsOn, next, seenAtRender, runs, invNo, callError>>

\* the loop condition is false: _call returns the CallResult with chains: results
LoopExit ==
    /\ callState = "loop"
    /\ ~LoopContinues(satisfied)
    /\ callState' = "resolved"
    /\ UNCHANGED <<dependsOn, satisfied, results, builtinsChains, next, chainState,
                   seenAtRender, runs, invNo, callError>>

(***************************************************************************)
(* Two invocations of one loaded multi-chain program that interleave at    *)
(* their await points.  Each _call has its own results and satisfied; the  *)
(* builtins object is the one the load call created.                       *)
(***************************************************************************)
MaxPairChains == 2

Pair == {1, 2}

PairDocuments == {deps \in Documents : Cardinality(DOMAIN deps) <= MaxPairChains}

\* builtins.chains is the {} of the load call; a key it does not have
NoInvocation == 0

PairFresh ==
    /\ pairCall = [i \in Pair |-> "idle"]
    /\ pairSatisfied = [i \in Pair |-> <<>>]
    /\ pairNext = [i \in Pair |-> <<>>]
    /\ pairResults = [i \in Pair |-> {}]
    /\ pairChain = [i \in Pair |-> [c \in ChainNames |-> "idle"]]
    /\ pairBuiltins = NoInvocation
    /\ pairSeen = [i \in Pair |-> [c \in ChainNames |-> [d \in ChainNames |-> NoInvocation]]]

PairInitIdle == PairFresh

\* loadString returned the program; SchedFresh leaves the scheduler of the
\* single invocation idle
PairInit == dependsOn \in PairDocuments /\ SchedFresh /\ PairFresh

\* builtins.chains[d]: the invocation that produced the entry, if there is one
BuiltinsEntry(d) ==
    IF pairBuiltins # NoInvocation /\ d \in pairResults[pairBuiltins]
    THEN pairBuiltins
    ELSE NoInvocation

\* the program function is called: _call creates results and satisfied and
\* is handed the builtins of the load call
PairInvoke(i) ==
    /\ pairCall[i] = "idle"
    /\ pairCall' = [pairCall EXCEPT ![i] = "loop"]
    /\ UNCHANGED <<pairSatisfied, pairNext, pairResults, pairChain, pairBuiltins, pairSeen>>

\* one iteration of the while loop up to the await
PairWaveStart(i) ==
    /\ pairCall[i] = "loop"
    /\ LoopContinues(pairSatisfied[i])
    /\ pairNext' = [pairNext EXCEPT ![i] = NextWave(pairSatisfied[i])]
    /\ pairChain' = [pairChain EXCEPT ![i] =
                        [c \in ChainNames |->
                            IF c \in Range(NextWave(pairSatisfied[i]))
                            THEN "started" ELSE pairChain[i][c]]]
    /\ pairCall' = [pairCall EXCEPT ![i] = "wave"]
    /\ UNCHANGED <<pairSatisfied, pairResults, pairBuiltins, pairSeen>>

\* executeChain renders against {...inputs, ...opts.builtins}
PairChainRender(i, c) ==
    /\ pairChain[i][c] = "started"
    /\ pairChain' = [pairChain EXCEPT ![i][c] = "rendered"]
    /\ pairSeen' = [pairSeen EXCEPT ![i][c] = [d \in ChainNames |-> BuiltinsEntry(d)]]
    /\ UNCHANGED <<pairCall, pairSatisfied, pairNext, pairResults, pairBuiltins>>

\* executeChain returns {messages, outputs}
PairChainFinish(i, c) ==
    /\ pairChain[i][c] = "rendered"
    /\ pairChain' = [pairChain EXCEPT ![i][c] = "done"]
    /\ UNCHANGED <<pairCall, pairSatisfied, pairNext, pairResults, pairBuiltins, pairSeen>>

\* executeChain throws: Promise.all and _call reject
PairChainFail(i, c) ==
    /\ pairChain[i][c] \in {"started", "rendered"}
    /\ pairChain' = [pairChain EXCEPT ![i][c] = "failed"]
    /\ pairCall' = [pairCall EXCEPT ![i] = IF @ = "wave" THEN "rejected" ELSE @]
    /\ UNCHANGED <<pairSatisfied, pairNext, pairResults, pairBuiltins, pairSeen>>

\* Promise.all resolved: results are recorded, builtins.chains = results,
\* satisfied.push(...next)
PairWaveEnd(i) ==
    /\ pairCall[i] = "wave"
    /\ \A c \in Range(pairNext[i]) : pairChain[i][c] = "done"
    /\ pairResults' = [pairResults EXCEPT ![i] = @ \cup Range(pairNext[i])]
    /\ pairBuiltins' = i
    /\ pairSatisfied' = [pairSatisfied EXCEPT ![i] = @ \o pairNext[i]]
    /\ pairChain' = [pairChain EXCEPT ![i] = [c \in ChainNames |-> "idle"]]
    /\ pairCall' = [pairCall EXCEPT ![i] = "loop"]
    /\ UNCHANGED <<pairNext, pairSeen>>

\* the loop condition is false: _call returns the CallResult
PairLoopExit(i) ==
    /\ pairCall[i] = "loop"
    /\ ~LoopContinues(pairSatisfied[i])
    /\ pairCall' = [pairCall EXCEPT ![i] = "resolved"]
    /\ UNCHANGED <<pairSatisfied, pairNext, pairResults, pairChain, pairBuiltins, pairSeen>>

(***************************************************************************)
(* executeOutput: cache lookup, the provider / tool-call loop, cache       *)
(* store.  A message is {role, content, toolCalls?, toolCallId?}; a tool   *)
(* call is {id, function: {name, arguments}}.                              *)
(***************************************************************************)
MaxToolCalls == 4

MaxOutputCalls == 2

MaxCachedToolCalls == 1

NoId == 0

Msg(role, content) ==
    [role |-> role, content |-> content, hasCalls |-> FALSE, toolCalls |-> <<>>,
     toolCallId |-> NoId]

AssistantMsg(content, tc) ==
    [role |-> "assistant", content |-> content, hasCalls |-> tc.hasCalls,
     toolCalls |-> tc.calls, toolCallId |-> NoId]

ToolMsg(content, id) ==
    [role |-> "tool", content |-> content, hasCalls |-> FALSE, toolCalls |-> <<>>,
     toolCallId |-> id]

NoToolCalls == [hasCalls |-> FALSE, calls |-> <<>>]

\* the pre-call histories the chain executor hands over
History1 == <<Msg("user", "u1")>>

History2 == <<Msg("system", "s"), Msg("user", "u2")>>

Histories == {History1, History2}

\* resolveConfig's results for the calls: the tools of a configuration are
\* the effective tool set of the call
Config1 == [provider |-> "p1", model |-> Obj("m1"), tools |-> <<"t1">>, format |-> "none"]

Config2 == [provider |-> "p1", model |-> Obj("m1"), tools |-> <<"t1", "t2">>,
            format |-> "none"]

Configs == {Config1, Config2}

NoConfig == [provider |-> Absent, model |-> Undef, tools |-> <<>>, format |-> "none"]

ToolNames == {"t1", "t2"}

\* argument payloads a model sends: valid for the schema, valid JSON that the
\* schema rejects, and text that is not JSON
ArgPayloads == {"{\"n\":1}", "{\"n\":\"x\"}", "{n"}

UndefinedValue == [type |-> "undefined", ntype |-> "", n |-> ""]

\* JSON.parse(payload): the parsed value, or a SyntaxError
JSONParse(payload) ==
    IF payload = "{\"n\":1}"
      THEN [ok |-> TRUE, value |-> [type |-> "object", ntype |-> "number", n |-> "1"]]
    ELSE IF payload = "{\"n\":\"x\"}"
      THEN [ok |-> TRUE, value |-> [type |-> "object", ntype |-> "string", n |-> "x"]]
    ELSE [ok |-> FALSE, value |-> UndefinedValue]

\* tool.function.arguments of the registered tools:
\* {type: object, properties: {n: {type: number}}, required: [n]}
SchemaAccepts(value) == value.type = "object" /\ value.ntype = "number"

\* new Validator().validate(args, schema): returns a ValidatorResult, whose
\* `valid` is false for an instance the schema rejects; it does not throw
Validate(value) == [valid |-> SchemaAccepts(value), threw |-> FALSE]

\* the try block around JSON.parse and validator.validate reaches its catch
ArgsBlockThrows(call) ==
    \/ ~JSONParse(call.arguments).ok
    \/ Validate(JSONParse(call.arguments).value).threw

\* the value of the outer `let args` when tool.function.execute(args) is called:
\* the try block declares its own `const args`, the outer one is never assigned
ExecuteArgs(call) == UndefinedValue

\* mutant of ToolFound: the lookup searches the registered tools, not the
\* effective tool set of the call
ToolFoundInRegistry(name, tools) == name \in ToolNames

\* config.tools.find(tool => tool.function.name === call.function.name)
ToolFound(name, tools) == \E i \in 1..Len(tools) : tools[i] = name

\* mutant of LoopAgain: the loop is left after the first round of tool calls
LoopAgainNever(tc) == FALSE

\* mutant of LoopAgain: while (toolCalls), true of an empty array
LoopAgainOnArray(tc) == tc.hasCalls

\* while (toolCalls && toolCalls.length > 0)
LoopAgain(tc) == tc.hasCalls /\ Len(tc.calls) > 0

\* if (!toolCalls) break
BreaksLoop(tc) == ~tc.hasCalls

ParseErrorContent(name) ==
    IF name = "t1" THEN "Error: Tool call t1 arguments failed to parse"
    ELSE "Error: Tool call t2 arguments failed to parse"

ExecuteErrorContent(name) ==
    IF name = "t1" THEN "Error: Tool call t1 failed" ELSE "Error: Tool call t2 failed"

ToolResult(name) == IF name = "t1" THEN "result of t1" ELSE "result of t2"

\* the registered tools' execute functions: t1 resolves with its result whatever
\* it is given, t2 rejects
ExecuteRejects(name) == name = "t2"

\* serializeKey: role and content of each message, name and arguments of each of
\* its tool calls; the ids are not part of the key
SerializeMessage(m) ==
    [role |-> m.role, content |-> m.content, hasCalls |-> m.hasCalls,
     calls |-> [i \in 1..Len(m.toolCalls) |->
                  <<m.toolCalls[i].name, m.toolCalls[i].arguments>>]]

SerializeKey(cfg, msgs) ==
    [provider |-> cfg.provider, model |-> cfg.model, format |-> cfg.format,
     tools |-> [i \in 1..Len(cfg.tools) |-> <<"function", cfg.tools[i]>>],
     messages |-> [i \in 1..Len(msgs) |-> SerializeMessage(msgs[i])]]

\* hashKey: the digest of the serialized key; distinct serialized keys of the
\* model are taken to have distinct digests
HashKey(cfg, msgs) == SerializeKey(cfg, msgs)

\* cache.get(key): the stored value, undefined when there is none
CacheGet(key) ==
    IF \E e \in cache : e.key = key
    THEN (CHOOSE e \in cache : e.key = key).value
    ELSE <<>>

\* if (cached?.length)
CacheHit(value) == Len(value) > 0

\* allMessages.slice(messages.length)
Suffix(all, from) == SubSeq(all, from + 1, Len(all))

NoReturn == [ok |-> FALSE, messages |-> <<>>, cost |-> 0]

NoError == [kind |-> "", tool |-> ""]

NoPrev == [valid |-> FALSE, messages |-> <<>>, config |-> NoConfig, history |-> <<>>]

OutFresh ==
    /\ pc = "idle"
    /\ messages = <<>>
    /\ config = NoConfig
    /\ allMessages = <<>>
    /\ toolCalls = NoToolCalls
    /\ callIdx = 0
    /\ cost = 0
    /\ cachePending = {}
    /\ cached = <<>>
    /\ returned = NoReturn
    /\ error = NoError
    /\ chainStatus = "idle"
    /\ invocation = "idle"
    /\ providerCalls = 0
    /\ toolRounds = 0
    /\ execLog = <<>>
    /\ throwLog = <<>>
    /\ setIssued = FALSE
    /\ budget = 0
    /\ outputCalls = 0
    /\ prev = NoPrev

OutInitIdle == hasCache = FALSE /\ cache = {} /\ OutFresh

\* a cache that already holds the reply of an earlier run of the first call
StoredEarlier ==
    {[key |-> HashKey(Config1, History1), value |-> <<AssistantMsg("r", NoToolCalls)>>]}

\* one executeOutput call; the cache, when configured, is empty or holds an
\* earlier reply
OutInit ==
    /\ hasCache \in BOOLEAN
    /\ cache \in (IF hasCache THEN {{}, StoredEarlier} ELSE {{}})
    /\ OutFresh

\* a sequence of executeOutput calls over a configured, initially empty cache
CacheInit == hasCache = TRUE /\ cache = {} /\ OutFresh

\* the key executeOutput looks up: config.tools as resolved
LookupKey == HashKey(config, messages)

\* the key executeOutput stores under: cacheMetadata (the tools without their
\* execute functions, which the key does not serialize) plus the pre-call messages
StoreKey == HashKey(config, messages)

\* the (name, arguments) pairs a provider response may request
RequestedCalls ==
    {[name |-> "t1", arguments |-> a] : a \in ArgPayloads}
        \cup {[name |-> "t2", arguments |-> "{\"n\":1}"]}

\* the toolCalls of a provider response: absent, or an array of at most `room`
\* calls, each with a fresh id
ToolCallChoices(room) ==
    {NoToolCalls} \cup
    UNION {{[hasCalls |-> TRUE,
             calls |-> [i \in 1..k |-> [id |-> budget + i, name |-> cs[i].name,
                                        arguments |-> cs[i].arguments]]] :
              cs \in [1..k -> RequestedCalls]} : k \in 0..room}

OutGhostUnchanged == UNCHANGED <<providerCalls, toolRounds, execLog, throwLog>>

\* executeChain reaches an output instruction and calls executeOutput
StartCall(h, cfg) ==
    /\ pc \in {"idle", "returned"}
    /\ outputCalls < MaxOutputCalls
    /\ outputCalls' = outputCalls + 1
    /\ prev' = IF pc = "returned"
               THEN [valid |-> TRUE, messages |-> messages, config |-> config,
                     history |-> returned.messages]
               ELSE prev
    /\ messages' = h
    /\ config' = cfg
    /\ allMessages' = h
    /\ toolCalls' = NoToolCalls
    /\ callIdx' = 0
    /\ cost' = 0
    /\ returned' = NoReturn
    /\ error' = NoError
    /\ chainStatus' = "running"
    /\ invocation' = "running"
    /\ providerCalls' = 0
    /\ toolRounds' = 0
    /\ execLog' = <<>>
    /\ throwLog' = <<>>
    /\ setIssued' = FALSE
    /\ cached' = <<>>
    /\ pc' = "lookup"
    /\ UNCHANGED <<hasCache, cache, cachePending, budget>>

\* cached?.length is truthy: return [[...messages, ...cached], zero cost]
CacheLookupHit ==
    /\ pc = "lookup"
    /\ hasCache
    /\ CacheHit(CacheGet(LookupKey))
    /\ cached' = CacheGet(LookupKey)
    /\ returned' = [ok |-> TRUE, messages |-> messages \o CacheGet(LookupKey), cost |-> 0]
    /\ pc' = "returned"
    /\ OutGhostUnchanged
    /\ UNCHANGED <<hasCache, messages, config, allMessages, toolCalls, callIdx, cost,
                   cache, cachePending, error, chainStatus, invocation, setIssued,
                   budget, outputCalls, prev>>

\* no cache, or nothing (or an empty array) stored under the key
CacheLookupMiss ==
    /\ pc = "lookup"
    /\ ~(hasCache /\ CacheHit(CacheGet(LookupKey)))
    /\ cached' = <<>>
    /\ pc' = "provider"
    /\ OutGhostUnchanged
    /\ UNCHANGED <<hasCache, messages, config, allMessages, toolCalls, callIdx, cost,
                   cache, cachePending, returned, error, chainStatus, invocation,
                   setIssued, budget, outputCalls, prev>>

\* the loop is left: cache.set is called (not awaited) with the appended suffix
\* and [allMessages, _cost] is returned
Finish(all, c) ==
    /\ pc' = "returned"
    /\ returned' = [ok |-> TRUE, messages |-> all, cost |-> c]
    /\ cachePending' = IF hasCache
                       THEN cachePending \cup
                              {[key |-> StoreKey, value |-> Suffix(all, Len(messages))]}
                       ELSE cachePending
    /\ setIssued' = hasCache

\* config.provider.execute resolves with one assistant message and its cost
ProviderResponds(tc) ==
    /\ pc = "provider"
    /\ providerCalls' = providerCalls + 1
    /\ toolRounds' = IF tc.hasCalls /\ tc.calls # <<>> THEN toolRounds + 1 ELSE toolRounds
    /\ budget' = budget + Len(tc.calls)
    /\ allMessages' = Append(allMessages, AssistantMsg("r", tc))
    /\ cost' = cost + 1
    /\ toolCalls' = tc
    /\ IF BreaksLoop(tc)
       THEN /\ Finish(Append(allMessages, AssistantMsg("r", tc)), cost + 1)
            /\ UNCHANGED callIdx
       ELSE /\ pc' = "tools"
            /\ callIdx' = 1
            /\ UNCHANGED <<returned, cachePending, setIssued>>
    /\ UNCHANGED <<cached, hasCache, messages, config, cache, error, chainStatus, invocation,
                   execLog, throwLog, outputCalls, prev>>

\* config.provider.execute rejects: nothing catches it up to the caller of the program
ProviderThrows ==
    /\ pc = "provider"
    /\ providerCalls' = providerCalls + 1
    /\ pc' = "threw"
    /\ error' = [kind |-> "ProviderError", tool |-> ""]
    /\ chainStatus' = "rejected"
    /\ invocation' = "rejected"
    /\ UNCHANGED <<cached, hasCache, messages, config, allMessages, toolCalls, callIdx, cost,
                   cache, cachePending, returned, toolRounds, execLog, throwLog,
                   setIssued, budget, outputCalls, prev>>

AtToolCall == pc = "tools" /\ callIdx <= Len(toolCalls.calls)

CurrentCall == toolCalls.calls[callIdx]

\* if (!tool) throw new Error(... Tool <name> not specified, but was called by LLM ...)
ToolUnknown ==
    /\ AtToolCall
    /\ ~ToolFound(CurrentCall.name, config.tools)
    /\ pc' = "threw"
    /\ error' = [kind |-> "UnknownTool", tool |-> CurrentCall.name]
    /\ chainStatus' = "rejected"
    /\ invocation' = "rejected"
    /\ OutGhostUnchanged
    /\ UNCHANGED <<cached, hasCache, messages, config, allMessages, toolCalls, callIdx, cost,
                   cache, cachePending, returned, setIssued, budget, outputCalls, prev>>

\* the catch of the parse/validate try block: a tool message, then `continue`
ToolArgsRejected ==
    /\ AtToolCall
    /\ ToolFound(CurrentCall.name, config.tools)
    /\ ArgsBlockThrows(CurrentCall)
    /\ allMessages' = Append(allMessages,
                             ToolMsg(ParseErrorContent(CurrentCall.name), CurrentCall.id))
    /\ callIdx' = callIdx + 1
    /\ OutGhostUnchanged
    /\ UNCHANGED <<cached, pc, hasCache, messages, config, toolCalls, cost, cache, cachePending,
                   returned, error, chainStatus, invocation, setIssued, budget,
                   outputCalls, prev>>

\* await tool.function.execute(args) resolves: a tool message with the result
ToolExecuteReturns ==
    /\ AtToolCall
    /\ ToolFound(CurrentCall.name, config.tools)
    /\ ~ArgsBlockThrows(CurrentCall)
    /\ ~ExecuteRejects(CurrentCall.name)
    /\ execLog' = Append(execLog, [id |-> CurrentCall.id, name |-> CurrentCall.name,
                                   payload |-> CurrentCall.arguments,
                                   args |-> ExecuteArgs(CurrentCall)])
    /\ allMessages' = Append(allMessages,
                             ToolMsg(ToolResult(CurrentCall.name), CurrentCall.id))
    /\ callIdx' = callIdx + 1
    /\ UNCHANGED <<cached, pc, hasCache, messages, config, toolCalls, cost, cache, cachePending,
                   returned, error, chainStatus, invocation, providerCalls, toolRounds,
                   throwLog, setIssued, budget, outputCalls, prev>>

\* mutant of ToolExecuteThrows: no catch around execute, the rejection leaves
\* executeOutput
ToolExecuteThrowsPropagates ==
    /\ AtToolCall
    /\ ToolFound(CurrentCall.name, config.tools)
    /\ ~ArgsBlockThrows(CurrentCall)
    /\ ExecuteRejects(CurrentCall.name)
    /\ execLog' = Append(execLog, [id |-> CurrentCall.id, name |-> CurrentCall.name,
                                   payload |-> CurrentCall.arguments,
                                   args |-> ExecuteArgs(CurrentCall)])
    /\ throwLog' = Append(throwLog, CurrentCall.id)
    /\ pc' = "threw"
    /\ error' = [kind |-> "ToolError", tool |-> CurrentCall.name]
    /\ chainStatus' = "rejected"
    /\ invocation' = "rejected"
    /\ UNCHANGED <<cached, hasCache, messages, config, allMessages, toolCalls, callIdx,
                   cost, cache, cachePending, returned, providerCalls, toolRounds,
                   setIssued, budget, outputCalls, prev>>

\* await tool.function.execute(args) rejects: the catch appends a tool message
ToolExecuteThrows ==
    /\ AtToolCall
    /\ ToolFound(CurrentCall.name, config.tools)
    /\ ~ArgsBlockThrows(CurrentCall)
    /\ ExecuteRejects(CurrentCall.name)
    /\ execLog' = Append(execLog, [id |-> CurrentCall.id, name |-> CurrentCall.name,
                                   payload |-> CurrentCall.arguments,
                                   args |-> ExecuteArgs(CurrentCall)])
    /\ throwLog' = Append(throwLog, CurrentCall.id)
    /\ allMessages' = Append(allMessages,
                             ToolMsg(ExecuteErrorContent(CurrentCall.name), CurrentCall.id))
    /\ callIdx' = callIdx + 1
    /\ UNCHANGED <<cached, pc, hasCache, messages, config, toolCalls, cost, cache, cachePending,
                   returned, error, chainStatus, invocation, providerCalls, toolRounds,
                   setIssued, budget, outputCalls, prev>>

\* the for loop is over: the while condition decides between another provider
\* call and leaving the loop
RoundEnd ==
    /\ pc = "tools"
    /\ callIdx > Len(toolCalls.calls)
    /\ IF LoopAgain(toolCalls)
       THEN /\ pc' = "provider"
            /\ UNCHANGED <<returned, cachePending, setIssued>>
       ELSE Finish(allMessages, cost)
    /\ OutGhostUnchanged
    /\ UNCHANGED <<cached, hasCache, messages, config, allMessages, toolCalls, callIdx, cost,
                   cache, error, chainStatus, invocation, budget, outputCalls, prev>>

\* the promise of a cache.set call settles: the value is in the store
CacheSetSettles(w) ==
    /\ w \in cachePending
    /\ cache' = {e \in cache : e.key # w.key} \cup {w}
    /\ cachePending' = cachePending \ {w}
    /\ OutGhostUnchanged
    /\ UNCHANGED <<cached, pc, hasCache, messages, config, allMessages, toolCalls, callIdx, cost,
                   returned, error, chainStatus, invocation, setIssued, budget,
                   outputCalls, prev>>

(***************************************************************************)
(* executeChain: the instruction tape of one chain, its live history and   *)
(* its outputs map, and the CallResult _call builds from the result.       *)
(* A string is {tag, text}: the liquid tag it holds, if any, and its text. *)
(***************************************************************************)
MaxMsgs == 3

MaxRuns == 2

\* a string without liquid tags
Text(s) == [tag |-> "none", text |-> s]

\* the template "{{ x }}"
InputTag == [tag |-> "input", text |-> ""]

\* the template "{{ outputs.a.content }}"
OutputTag == [tag |-> "output", text |-> ""]

\* a JSON value: undefined, null, or the object {a: n}
JsonUndefined == [type |-> "undefined", a |-> 0]

JsonNull == [type |-> "null", a |-> 0]

JsonObject(n) == [type |-> "object", a |-> n]

\* the texts a provider answers with: a JSON object, and text that is not JSON
Responses == {"{ \"a\": 1 }", "text"}

\* JSON.parse(content) on the texts of the model: the parsed value, or a
\* SyntaxError
ParseContent(content) ==
    IF content \in {"{\"a\":1}", "{ \"a\": 1 }"} THEN [ok |-> TRUE, value |-> JsonObject(1)]
    ELSE IF content = "null" THEN [ok |-> TRUE, value |-> JsonNull]
    ELSE [ok |-> FALSE, value |-> JsonUndefined]

\* output.format?.json of a document: missing, a boolean, or a string
NoJson == [kind |-> "none", flag |-> FALSE, tmpl |-> Text("")]

JsonFlag(b) == [kind |-> "boolean", flag |-> b, tmpl |-> Text("")]

JsonSchema(t) == [kind |-> "string", flag |-> FALSE, tmpl |-> t]

\* JavaScript truthiness of format?.json
JsonTruthy(j) ==
    \/ j.kind = "boolean" /\ j.flag
    \/ j.kind = "string" /\ (j.tmpl.tag # "none" \/ j.tmpl.text # "")

\* the elements of a document's messages
PushMessage(role, content) ==
    [type |-> "push", role |-> role, content |-> content, id |-> "", json |-> NoJson,
     system |-> "unset"]

OutputMessage(id, json) ==
    [type |-> "output", role |-> "", content |-> Text(""), id |-> id, json |-> json,
     system |-> "unset"]

ClearMessage(system) ==
    [type |-> "clear", role |-> "", content |-> Text(""), id |-> "", json |-> NoJson,
     system |-> system]

\* an instruction of the tape; an output instruction's format is the format
\* object of the document message it was mapped from (src, 0 for none)
TapePush(role, content) ==
    [type |-> "push", role |-> role, content |-> content, id |-> "", src |-> 0,
     system |-> "unset"]

TapeOutput(id, src) ==
    [type |-> "output", role |-> "", content |-> Text(""), id |-> id, src |-> src,
     system |-> "unset"]

TapeClear(system) ==
    [type |-> "clear", role |-> "", content |-> Text(""), id |-> "", src |-> 0,
     system |-> system]

\* mutant of MapMessage: an output without id is given the default id
MapMessageNamesEveryOutput(m, i) ==
    IF m.type = "output"
    THEN TapeOutput(IF m.id = "" THEN DEFAULT_OUTPUT_ID ELSE m.id, i)
    ELSE IF m.type = "clear" THEN TapeClear(m.system)
    ELSE TapePush(m.role, m.content)

\* messages.map(...) of messagesToInstructions
MapMessage(m, i) ==
    IF m.type = "output" THEN TapeOutput(m.id, i)
    ELSE IF m.type = "clear" THEN TapeClear(m.system)
    ELSE TapePush(m.role, m.content)

\* messagesToInstructions(path, messages), for a messages array that is not
\* empty: an output is appended when the last instruction is none, and the
\* last instruction gets the default id when it has no id
messagesToInstructions(msgs) ==
    LET mapped == [i \in 1..Len(msgs) |-> MapMessage(msgs[i], i)]
        ended == IF mapped[Len(mapped)].type # "output"
                 THEN Append(mapped, TapeOutput("", 0))
                 ELSE mapped
        last == ended[Len(ended)]
    IN  IF last.id = ""
        THEN [ended EXCEPT ![Len(ended)] = TapeOutput(DEFAULT_OUTPUT_ID, last.src)]
        ELSE ended

OutputIds == {"a", DEFAULT_OUTPUT_ID}

\* an entry of an outputs map; present is FALSE for a key the map does not have
NoOutput == [present |-> FALSE, role |-> "", content |-> "", value |-> JsonUndefined]

OutputRecord(msg, value) ==
    [present |-> TRUE, role |-> msg.role, content |-> msg.content, value |-> value]

NoOutputs == [id \in OutputIds |-> NoOutput]

\* liquid.parseAndRender(template, context), context = {...inputs, ...builtins}:
\* a name the context does not have renders as the empty string
parseAndRender(template, x, outputs) ==
    IF template.tag = "input" THEN x
    ELSE IF template.tag = "output"
         THEN (IF outputs["a"].present THEN outputs["a"].content ELSE "")
    ELSE template.text

\* mutant of ClearsAll: the system flag is not looked at
ClearsAllWithoutSystem(instr, msgs) ==
    \/ msgs = <<>>
    \/ msgs[1].role # "system"

\* instr.system || msgs[0]?.role !== "system"
ClearsAll(instr, msgs) ==
    \/ instr.system = "true"
    \/ msgs = <<>>
    \/ msgs[1].role # "system"

DEFAULT_CHAIN_ID == "default"

NoCallResult ==
    [messages |-> [null |-> TRUE, list |-> <<>>],
     output |-> [null |-> TRUE, rec |-> NoOutput],
     content |-> [null |-> TRUE, text |-> ""],
     value |-> JsonNull,
     chains |-> {}]

\* x ?? null on a JSON value
OrNull(v) == IF v.type = "undefined" THEN JsonNull ELSE v

\* output: outputs[DEFAULT_OUTPUT_ID] ?? null
OutputOrNull(outputs) ==
    IF outputs[DEFAULT_OUTPUT_ID].present
    THEN [null |-> FALSE, rec |-> outputs[DEFAULT_OUTPUT_ID]]
    ELSE [null |-> TRUE, rec |-> NoOutput]

\* mutant of ResultOf: content is read from the first message of the history
ResultOfFirstMessage(id, msgs, outputs) ==
    [messages |-> [null |-> FALSE, list |-> msgs],
     output |-> OutputOrNull(outputs),
     content |-> [null |-> FALSE, text |-> msgs[1].content],
     value |-> OrNull(outputs[DEFAULT_OUTPUT_ID].value),
     chains |-> {[id |-> id, messages |-> msgs, outputs |-> outputs]}]

\* the CallResult of a chain result {messages, outputs} returned under id
ResultOf(id, msgs, outputs) ==
    [messages |-> [null |-> FALSE, list |-> msgs],
     output |-> OutputOrNull(outputs),
     content |-> [null |-> FALSE, text |-> msgs[Len(msgs)].content],
     value |-> OrNull(outputs[DEFAULT_OUTPUT_ID].value),
     chains |-> {[id |-> id, messages |-> msgs, outputs |-> outputs]}]

\* the CallResult of a multi-chain document whose results have no default chain
ResultWithoutDefault(id, msgs, outputs) ==
    [NoCallResult EXCEPT !.chains = {[id |-> id, messages |-> msgs, outputs |-> outputs]}]

\* a message of the history
ChatMessage(role, content) == [role |-> role, content |-> content]

\* the messages of the documents
ChainElements ==
    {PushMessage("system", Text("s")),
     PushMessage("user", InputTag), PushMessage("user", OutputTag),
     OutputMessage("", JsonFlag(TRUE)),
     OutputMessage("a", JsonSchema(InputTag)),
     OutputMessage(DEFAULT_OUTPUT_ID, JsonFlag(TRUE)),
     ClearMessage("unset"), ClearMessage("false"), ClearMessage("true")}

\* the document of a chain as validateSchema reads it
AsValDoc(msgs) ==
    [kind |-> "single", deps |-> <<>>,
     tapes |-> << [i \in 1..Len(msgs) |->
                     IF msgs[i].type = "output"
                     THEN OutputItem(IF msgs[i].id = "" THEN Absent ELSE msgs[i].id)
                     ELSE PushItem] >>,
     inputs |-> <<"x">>, chainInputs |-> <<>>]

\* the documents a load call returns a program for
ChainDocs == {d \in SeqsUpTo(ChainElements, MaxMsgs) : validateSchema(AsValDoc(d)).ok}

InputValues == {"v1", "v2"}

ChainIdle ==
    /\ chInputs = ""
    /\ chTape = <<>>
    /\ chIp = 0
    /\ chMsgs = <<>>
    /\ chOutputs = NoOutputs
    /\ builtinOutputs = NoOutputs
    /\ builtinChains = {}
    /\ chContext = NoOutputs
    /\ chState = "idle"
    /\ chError = ""
    /\ chResult = NoCallResult
    /\ chExecs = 0
    /\ chWarnings = 0
    /\ chInv = 0

ChainInitIdle ==
    /\ chDoc = <<>> /\ chLoaded = <<>>
    /\ chKind = "none" /\ chName = ""
    /\ hasLogger = FALSE
    /\ ChainIdle

\* loadString returned a program for the document, a single chain or one
\* named chain of fewer messages; builtins is {chains: {}, outputs: {}}
ChainInit ==
    /\ chDoc \in ChainDocs
    /\ chLoaded = chDoc
    /\ \/ chKind = "single" /\ chName = DEFAULT_OUTPUT_ID
       \/ chKind = "multi" /\ chName \in {DEFAULT_CHAIN_ID, "other"} /\ Len(chDoc) < MaxMsgs
    /\ hasLogger \in BOOLEAN
    /\ ChainIdle

\* the program function is called with inputs {x}: _call calls executeChain,
\* which builds the tape; messagesToInstructions throws on an empty array
ChainInvoke(x) ==
    /\ chState \in {"idle", "resolved", "rejected"}
    /\ chInv < MaxRuns
    /\ chInv' = chInv + 1
    /\ chInputs' = x
    /\ chExecs' = 1
    /\ chWarnings' = 0
    /\ chMsgs' = <<>>
    /\ chOutputs' = NoOutputs
    /\ chContext' = NoOutputs
    /\ chResult' = NoCallResult
    /\ IF chDoc = <<>>
       THEN chState' = "rejected" /\ chError' = "TypeError" /\ chTape' = <<>> /\ chIp' = 0
       ELSE /\ chState' = "running" /\ chError' = ""
            /\ chTape' = messagesToInstructions(chDoc)
            /\ chIp' = 1
    /\ UNCHANGED <<chDoc, chLoaded, chKind, chName, hasLogger, builtinOutputs,
                   builtinChains>>

AtInstruction(type) ==
    /\ chState = "running"
    /\ chIp <= Len(chTape)
    /\ chTape[chIp].type = type

\* case "push": the content is rendered against {...inputs, ...builtins} and
\* the message is pushed
ExecPush ==
    /\ AtInstruction("push")
    /\ chContext' = builtinOutputs
    /\ chMsgs' = Append(chMsgs, ChatMessage(chTape[chIp].role,
                          parseAndRender(chTape[chIp].content, chInputs, builtinOutputs)))
    /\ chIp' = chIp + 1
    /\ UNCHANGED <<chDoc, chLoaded, chKind, chName, hasLogger, chInputs, chTape,
                   chOutputs, builtinOutputs, builtinChains, chState, chError, chResult,
                   chExecs, chWarnings, chInv>>

\* renderInstruction on an output instruction: a format.json string is
\* rendered and written back into the format object, the document's
RenderedDoc ==
    LET src == chTape[chIp].src
    IN  IF src # 0 /\ chDoc[src].json.kind = "string"
        THEN [chDoc EXCEPT ![src].json =
                 JsonSchema(Text(parseAndRender(chDoc[src].json.tmpl, chInputs,
                                                builtinOutputs)))]
        ELSE chDoc

\* output.format of the instruction after rendering
FormatJson(doc, instr) == IF instr.src = 0 THEN NoJson ELSE doc[instr.src].json

\* mutant of OutputValue: the trailing content is never parsed
OutputValueUnparsed(json, content) == JsonUndefined

\* the value of an output: JSON.parse of the trailing content when
\* format.json is truthy, undefined otherwise and when the parse throws
OutputValue(json, content) ==
    IF JsonTruthy(json) /\ ParseContent(content).ok THEN ParseContent(content).value
    ELSE JsonUndefined

\* case "output": executeOutput resolves with the history and the provider's
\* answer; the trailing message is recorded under the instruction's id
ExecOutput(resp) ==
    /\ AtInstruction("output")
    /\ chContext' = builtinOutputs
    /\ chDoc' = RenderedDoc
    /\ LET instr == chTape[chIp]
           json == FormatJson(RenderedDoc, instr)
           last == ChatMessage("assistant", resp)
       IN  /\ chMsgs' = Append(chMsgs, last)
           /\ chWarnings' = IF hasLogger /\ JsonTruthy(json) /\ ~ParseContent(resp).ok
                            THEN chWarnings + 1 ELSE chWarnings
           /\ chOutputs' = IF instr.id # ""
                           THEN [chOutputs EXCEPT ![instr.id] =
                                    OutputRecord(last, OutputValue(json, resp))]
                           ELSE chOutputs
    /\ chIp' = chIp + 1
    /\ UNCHANGED <<chLoaded, chKind, chName, hasLogger, chInputs, chTape,
                   builtinOutputs, builtinChains, chState, chError, chResult, chExecs,
                   chInv>>

\* case "output": executeOutput throws (configuration, unknown tool, provider);
\* executeChain and _call reject with the error
ExecOutputThrows ==
    /\ AtInstruction("output")
    /\ chContext' = builtinOutputs
    /\ chDoc' = RenderedDoc
    /\ chState' = "rejected"
    /\ chError' = "executeOutput"
    /\ UNCHANGED <<chLoaded, chKind, chName, hasLogger, chInputs, chTape, chIp, chMsgs,
                   chOutputs, builtinOutputs, builtinChains, chResult, chExecs,
                   chWarnings, chInv>>

\* mutant of ExecClear: the outputs map is emptied with the history
ExecClearDropsOutputs ==
    /\ AtInstruction("clear")
    /\ chContext' = builtinOutputs
    /\ chMsgs' = IF ClearsAll(chTape[chIp], chMsgs) THEN <<>> ELSE SubSeq(chMsgs, 1, 1)
    /\ chOutputs' = NoOutputs
    /\ chIp' = chIp + 1
    /\ UNCHANGED <<chDoc, chLoaded, chKind, chName, hasLogger, chInputs, chTape,
                   builtinOutputs, builtinChains, chState, chError, chResult,
                   chExecs, chWarnings, chInv>>

\* case "clear"
ExecClear ==
    /\ AtInstruction("clear")
    /\ chContext' = builtinOutputs
    /\ chMsgs' = IF ClearsAll(chTape[chIp], chMsgs) THEN <<>> ELSE SubSeq(chMsgs, 1, 1)
    /\ chIp' = chIp + 1
    /\ UNCHANGED <<chDoc, chLoaded, chKind, chName, hasLogger, chInputs, chTape,
                   chOutputs, builtinOutputs, builtinChains, chState, chError, chResult,
                   chExecs, chWarnings, chInv>>

\* executeChain returns {messages, outputs} and _call builds the CallResult:
\* the single-chain branch reads outputs[DEFAULT_OUTPUT_ID].value, the
\* multi-chain branch sets builtins.chains and reads results[DEFAULT_CHAIN_ID]
\* through ?.
ChainReturn ==
    /\ chState = "running"
    /\ chIp > Len(chTape)
    /\ IF chKind = "single"
       THEN /\ IF chOutputs[DEFAULT_OUTPUT_ID].present
               THEN /\ chState' = "resolved"
                    /\ chResult' = ResultOf(DEFAULT_OUTPUT_ID, chMsgs, chOutputs)
                    /\ chError' = chError
               ELSE /\ chState' = "rejected"
                    /\ chError' = "TypeError"
                    /\ chResult' = chResult
            /\ builtinChains' = builtinChains
       ELSE /\ chState' = "resolved"
            /\ chError' = chError
            /\ builtinChains' = {chName}
            /\ chResult' = IF chName = DEFAULT_CHAIN_ID
                           THEN ResultOf(chName, chMsgs, chOutputs)
                           ELSE ResultWithoutDefault(chName, chMsgs, chOutputs)
    /\ UNCHANGED <<chDoc, chLoaded, chKind, chName, hasLogger, chInputs, chTape, chIp,
                   chMsgs, chOutputs, builtinOutputs, chContext, chExecs, chWarnings,
                   chInv>>

(***************************************************************************)
(* Cost accounting: the chains of one wave run their executeOutput calls   *)
(* concurrently; each call sums the costs of its provider calls and the    *)
(* chain adds the sum to the engine when the call returns.                 *)
(***************************************************************************)
MaxWaveChains == 2

MaxChainOutputs == 1

MaxProviderCalls == 3

WaveChains == 1..MaxWaveChains

ZeroCost == [usd |-> 0, tokens |-> 0, ms |-> 0]

\* the costs a provider call returns
ProviderCosts == {ZeroCost, [usd |-> 1, tokens |-> 2, ms |-> 3]}

\* mutant of addCost: the elapsed time of the first operand is dropped
addCostWithoutElapsed(a, b) ==
    [usd |-> a.usd + b.usd, tokens |-> a.tokens + b.tokens, ms |-> b.ms]

\* addCost(a, b) of utils.ts
addCost(a, b) ==
    [usd |-> a.usd + b.usd, tokens |-> a.tokens + b.tokens, ms |-> a.ms + b.ms]

CostIdle ==
    /\ outputCost = [c \in WaveChains |-> ZeroCost]
    /\ costPhase = [c \in WaveChains |-> "idle"]
    /\ outputsLeft = [c \in WaveChains |-> 0]
    /\ costBefore = ZeroCost
    /\ provided = ZeroCost
    /\ providerBudget = 0
    /\ costCall = "idle"
    /\ costInv = 0

CostInitIdle == engineCost = ZeroCost /\ CostIdle

\* new Yapl(options): private _cost = { usd: 0, tokens: 0, ms: 0 }
CostInit == engineCost = ZeroCost /\ CostIdle

\* inside executeOutput: before the first provider call returned, or after
InOutput(c) == costPhase[c] \in {"output", "answered"}

InFlight(c) == costPhase[c] = "running" \/ InOutput(c)

\* the program is called: the chains of the wave are started, each with its
\* number of output instructions
CostInvoke(n) ==
    /\ costCall \in {"idle", "resolved", "rejected"}
    /\ \A c \in WaveChains : ~InFlight(c)
    /\ costInv < MaxInvocations
    /\ costInv' = costInv + 1
    /\ costCall' = "wave"
    /\ costBefore' = engineCost
    /\ provided' = ZeroCost
    /\ providerBudget' = MaxProviderCalls
    /\ costPhase' = [c \in WaveChains |-> "running"]
    /\ outputsLeft' = n
    /\ outputCost' = [c \in WaveChains |-> ZeroCost]
    /\ UNCHANGED engineCost

\* executeOutput is called and finds its answer in the cache: it returns the
\* zero cost, which the chain adds
OutputCacheHit(c) ==
    /\ costPhase[c] = "running"
    /\ outputsLeft[c] > 0
    /\ engineCost' = addCost(engineCost, ZeroCost)
    /\ outputsLeft' = [outputsLeft EXCEPT ![c] = @ - 1]
    /\ UNCHANGED <<outputCost, costPhase, costBefore, provided, providerBudget, costCall,
                   costInv>>

\* executeOutput is called and misses the cache: let _cost = {0, 0, 0}
OutputStart(c) ==
    /\ costPhase[c] = "running"
    /\ outputsLeft[c] > 0
    /\ providerBudget > 0
    /\ costPhase' = [costPhase EXCEPT ![c] = "output"]
    /\ outputCost' = [outputCost EXCEPT ![c] = ZeroCost]
    /\ UNCHANGED <<engineCost, outputsLeft, costBefore, provided, providerBudget,
                   costCall, costInv>>

\* a provider call of the tool loop returns: _cost = addCost(_cost, cost)
ProviderReturns(c, k) ==
    /\ InOutput(c)
    /\ providerBudget > 0
    /\ providerBudget' = providerBudget - 1
    /\ costPhase' = [costPhase EXCEPT ![c] = "answered"]
    /\ outputCost' = [outputCost EXCEPT ![c] = addCost(@, k)]
    /\ provided' = [usd |-> provided.usd + k.usd, tokens |-> provided.tokens + k.tokens,
                    ms |-> provided.ms + k.ms]
    /\ UNCHANGED <<engineCost, outputsLeft, costBefore, costCall, costInv>>

\* executeOutput returns [allMessages, _cost] and the chain calls
\* opts.yapl.addCost(_cost): this._cost = addCost(this._cost, cost)
OutputReturns(c) ==
    /\ costPhase[c] = "answered"
    /\ engineCost' = addCost(engineCost, outputCost[c])
    /\ costPhase' = [costPhase EXCEPT ![c] = "running"]
    /\ outputsLeft' = [outputsLeft EXCEPT ![c] = @ - 1]
    /\ UNCHANGED <<outputCost, costBefore, provided, providerBudget, costCall, costInv>>

\* executeOutput throws inside the tool loop: its _cost is not returned and
\* the invocation rejects
OutputThrows(c) ==
    /\ InOutput(c)
    /\ costPhase' = [costPhase EXCEPT ![c] = "failed"]
    /\ costCall' = "rejected"
    /\ UNCHANGED <<engineCost, outputCost, outputsLeft, costBefore, provided,
                   providerBudget, costInv>>

\* executeChain returns
ChainDone(c) ==
    /\ costPhase[c] = "running"
    /\ outputsLeft[c] = 0
    /\ costPhase' = [costPhase EXCEPT ![c] = "done"]
    /\ UNCHANGED <<engineCost, outputCost, outputsLeft, costBefore, provided,
                   providerBudget, costCall, costInv>>

\* Promise.all resolved and _call returns the CallResult
CostResolve ==
    /\ costCall = "wave"
    /\ \A c \in WaveChains : costPhase[c] = "done"
    /\ costCall' = "resolved"
    /\ UNCHANGED <<engineCost, outputCost, costPhase, outputsLeft, costBefore, provided,
                   providerBudget, costInv>>

(***************************************************************************)
(* The specifications.                                                     *)
(***************************************************************************)
CfgInit == cfgIn \in CfgInputs /\ cfgOut = CfgPending /\ ResInitIdle /\ ValInitIdle
           /\ SchedInitIdle /\ OutInitIdle /\ ChainInitIdle /\ CostInitIdle /\ PairInitIdle

CfgNext == ResolveOutputCall /\ UNCHANGED <<resVars, valVars, schedVars, outVars, chVars, costVars, pairVars>>

SpecCfg == CfgInit /\ [][CfgNext]_vars

ResInit == resIn \in ResInputs /\ resOut = ResPending /\ CfgInitIdle /\ ValInitIdle
           /\ SchedInitIdle /\ OutInitIdle /\ ChainInitIdle /\ CostInitIdle /\ PairInitIdle

ResNext == ResolveCall /\ UNCHANGED <<cfgVars, valVars, schedVars, outVars, chVars, costVars, pairVars>>

SpecRes == ResInit /\ [][ResNext]_vars

OthersIdle == CfgInitIdle /\ ResInitIdle /\ SchedInitIdle /\ OutInitIdle /\ ChainInitIdle /\ CostInitIdle /\ PairInitIdle

\* validateSchema on every document of the bounds
ValInit == valDoc \in ValDocs /\ ValFresh /\ OthersIdle

ValNext == LoadString /\ UNCHANGED <<cfgVars, resVars, schedVars, outVars, chVars, costVars, pairVars>>

SpecVal == ValInit /\ [][ValNext]_vars

\* a document is loaded and the program function, when there is one, is called
LoadInit == valDoc \in LoadDocs /\ ValFresh /\ OthersIdle

LoadNext ==
    /\ UNCHANGED <<cfgVars, resVars, schedVars, outVars, chVars, costVars, pairVars>>
    /\ \/ LoadString
       \/ CallProgram
       \/ EngineOperation

SpecLoad == LoadInit /\ [][LoadNext]_vars

SchedSpecInit == SchedInit /\ CfgInitIdle /\ ResInitIdle /\ ValInitIdle /\ OutInitIdle
                 /\ ChainInitIdle /\ CostInitIdle /\ PairInitIdle

SchedNext ==
    /\ UNCHANGED <<cfgVars, resVars, valVars, outVars, chVars, costVars, pairVars>>
    /\ \/ Invoke
       \/ WaveStart
       \/ \E c \in Declared : ChainRender(c)
       \/ \E c \in Declared : ChainFinish(c)
       \/ \E c \in Declared : ChainFail(c)
       \/ WaveEnd
       \/ LoopExit

SpecSched == SchedSpecInit /\ [][SchedNext]_vars

SchedOnly == UNCHANGED <<cfgVars, resVars, valVars, outVars, chVars, costVars, pairVars>>

\* the event loop runs what is ready: while _call or a chain execution of
\* the wave can take a step, one of them does, and a chain execution that was
\* started completes by returning or by throwing
SchedFairness ==
    WF_vars(SchedOnly /\ (\/ WaveStart
                          \/ WaveEnd
                          \/ LoopExit
                          \/ \E c \in ChainNames :
                                ChainRender(c) \/ ChainFinish(c) \/ ChainFail(c)))

\* the program function is called once
SchedNextOnce == SchedNext /\ (invNo = 0 \/ invNo' = invNo)

SpecSchedFair == SchedSpecInit /\ [][SchedNextOnce]_vars /\ SchedFairness

OutSpecInit == OutInit /\ CfgInitIdle /\ ResInitIdle /\ ValInitIdle /\ SchedInitIdle
               /\ ChainInitIdle /\ CostInitIdle /\ PairInitIdle

OutSteps ==
    \/ CacheLookupHit
    \/ CacheLookupMiss
    \/ ProviderThrows
    \/ ToolUnknown
    \/ ToolArgsRejected
    \/ ToolExecuteReturns
    \/ ToolExecuteThrows
    \/ RoundEnd
    \/ \E w \in cachePending : CacheSetSettles(w)

\* one executeOutput call, with up to MaxToolCalls tool calls requested
OutNext ==
    /\ UNCHANGED <<cfgVars, resVars, valVars, schedVars, chVars, costVars, pairVars>>
    /\ \/ \E h \in Histories, cfg \in Configs : outputCalls = 0 /\ StartCall(h, cfg)
       \/ \E tc \in ToolCallChoices(MaxToolCalls - budget) : ProviderResponds(tc)
       \/ OutSteps

SpecOut == OutSpecInit /\ [][OutNext]_vars

CacheSpecInit == CacheInit /\ CfgInitIdle /\ ResInitIdle /\ ValInitIdle /\ SchedInitIdle
                 /\ ChainInitIdle /\ CostInitIdle /\ PairInitIdle

\* up to MaxOutputCalls executeOutput calls in sequence over one cache, with up
\* to MaxCachedToolCalls tool calls requested in all
CacheNext ==
    /\ UNCHANGED <<cfgVars, resVars, valVars, schedVars, chVars, costVars, pairVars>>
    /\ \/ \E h \in Histories, cfg \in Configs : StartCall(h, cfg)
       \/ \E tc \in ToolCallChoices(MaxCachedToolCalls - budget) : ProviderResponds(tc)
       \/ OutSteps

SpecCache == CacheSpecInit /\ [][CacheNext]_vars

ChainSpecInit == ChainInit /\ CfgInitIdle /\ ResInitIdle /\ ValInitIdle /\ SchedInitIdle
                 /\ OutInitIdle /\ CostInitIdle /\ PairInitIdle

\* a loaded program is invoked up to MaxRuns times, each invocation running
\* executeChain over the document's messages
ChainNext ==
    /\ UNCHANGED <<cfgVars, resVars, valVars, schedVars, outVars, costVars, pairVars>>
    /\ \/ \E x \in InputValues : ChainInvoke(x)
       \/ ExecPush
       \/ \E resp \in Responses : ExecOutput(resp)
       \/ ExecOutputThrows
       \/ ExecClear
       \/ ChainReturn

SpecChain == ChainSpecInit /\ [][ChainNext]_vars

CostSpecInit == CostInit /\ CfgInitIdle /\ ResInitIdle /\ ValInitIdle /\ SchedInitIdle
                /\ OutInitIdle /\ ChainInitIdle /\ PairInitIdle

\* up to MaxInvocations invocations of a wave of MaxWaveChains chains
CostNext ==
    /\ UNCHANGED <<cfgVars, resVars, valVars, schedVars, outVars, chVars, pairVars>>
    /\ \/ \E n \in [WaveChains -> 1..MaxChainOutputs] : CostInvoke(n)
       \/ \E c \in WaveChains : OutputCacheHit(c)
       \/ \E c \in WaveChains : OutputStart(c)
       \/ \E c \in WaveChains, k \in ProviderCosts : ProviderReturns(c, k)
       \/ \E c \in WaveChains : OutputReturns(c)
       \/ \E c \in WaveChains : OutputThrows(c)
       \/ \E c \in WaveChains : ChainDone(c)
       \/ CostResolve

SpecCost == CostSpecInit /\ [][CostNext]_vars

PairSpecInit == PairInit /\ CfgInitIdle /\ ResInitIdle /\ ValInitIdle /\ OutInitIdle
                /\ ChainInitIdle /\ CostInitIdle

\* the program function is called twice and the two invocations interleave
PairNext ==
    /\ UNCHANGED <<cfgVars, resVars, valVars, schedVars, outVars, chVars, costVars>>
    /\ \/ \E i \in Pair : PairInvoke(i)
       \/ \E i \in Pair : PairWaveStart(i)
       \/ \E i \in Pair, c \in Declared : PairChainRender(i, c)
       \/ \E i \in Pair, c \in Declared : PairChainFinish(i, c)
       \/ \E i \in Pair, c \in Declared : PairChainFail(i, c)
       \/ \E i \in Pair : PairWaveEnd(i)
       \/ \E i \in Pair : PairLoopExit(i)

SpecPair == PairSpecInit /\ [][PairNext]_vars

(***************************************************************************)
(* Properties.                                                             *)
(***************************************************************************)

\* C1: in a multi-chain invocation, whenever executeChain has been called for a
\* chain X, every chain D of X.dependsOn has a completed execution of this
\* invocation whose result is in builtins.chains, and the context X rendered its
\* first instruction against held that result.
DependenciesCommittedBeforeStart ==
    \A X \in Declared :
        /\ chainState[X] \in {"started", "rendered", "done"} =>
              \A D \in dependsOn[X] :
                  /\ builtinsChains[D].inv = invNo
                  /\ builtinsChains[D].run >= 1
                  /\ builtinsChains[D] = results[D]
        /\ chainState[X] \in {"rendered", "done"} =>
              \A D \in dependsOn[X] :
                  /\ seenAtRender[X][D].inv = invNo
                  /\ seenAtRender[X][D].run >= 1

\* a chain with a dependency has rendered in the second invocation of the
\* program, while that dependency is being executed again in the same wave
DependentChainRendered ==
    \E X \in Declared : \E D \in dependsOn[X] :
        /\ chainState[X] = "rendered"
        /\ chainState[D] = "started"
        /\ invNo > 1

\* C2: when a multi-chain invocation of a validated document resolves, every
\* declared chain has been executed and has an entry in the returned chains map.
EveryChainExecutedOnResolve ==
    callState = "resolved" =>
        \A c \in Declared : runs[c] >= 1 /\ results[c].inv = invNo

MissReturned == pc = "returned" /\ ~CacheHit(cached)

LastMessage == allMessages[Len(allMessages)]

ProviderInvocable ==
    \/ ENABLED ProviderThrows
    \/ ENABLED (\E tc \in ToolCallChoices(MaxToolCalls - budget) : ProviderResponds(tc))

\* C4: a requested tool that is not in the effective tool set of the call is
\* never processed; executeOutput throws an error naming it, the provider cannot
\* be invoked again for the call, the call has written nothing to the cache, and
\* the chain and the invocation are rejected.
UnknownToolAbortsCall ==
    /\ pc \in {"tools", "threw"} =>
          \A j \in 1..Len(toolCalls.calls) :
              j < callIdx => toolCalls.calls[j].name \in Range(config.tools)
    /\ pc \in {"provider", "returned"} =>
          \A j \in 1..Len(toolCalls.calls) : toolCalls.calls[j].name \in Range(config.tools)
    /\ (pc = "threw" /\ error.kind = "UnknownTool") =>
          /\ error.tool = CurrentCall.name
          /\ error.tool \notin Range(config.tools)
          /\ ~ProviderInvocable
          /\ ~setIssued
          /\ \A e \in cache \cup cachePending : e.key # StoreKey
          /\ returned = NoReturn
          /\ chainStatus = "rejected"
          /\ invocation = "rejected"

\* an unknown tool was requested after a tool call had been processed, with a
\* cache configured
UnknownToolAfterProcessedCall ==
    /\ pc = "threw"
    /\ error.kind = "UnknownTool"
    /\ callIdx > 1
    /\ hasCache

BadArguments(payload) ==
    ~JSONParse(payload).ok \/ ~SchemaAccepts(JSONParse(payload).value)

ToolMessagesFor(id) ==
    {k \in 1..Len(allMessages) : allMessages[k].role = "tool" /\ allMessages[k].toolCallId = id}

\* C5: for a tool call whose payload is not JSON or fails the tool's schema the
\* executor is not invoked, and once the call is processed there is exactly one
\* tool message with its id, which reports the argument error.
BadArgumentsNeverReachExecutor ==
    /\ \A i \in 1..Len(execLog) : ~BadArguments(execLog[i].payload)
    /\ pc = "tools" =>
          \A j \in 1..Len(toolCalls.calls) :
              (j < callIdx /\ BadArguments(toolCalls.calls[j].arguments)) =>
                  /\ Cardinality(ToolMessagesFor(toolCalls.calls[j].id)) = 1
                  /\ \A k \in ToolMessagesFor(toolCalls.calls[j].id) :
                        allMessages[k].content = ParseErrorContent(toolCalls.calls[j].name)

\* C6: every invocation of a tool's execute function for a payload that parses
\* and validates receives the JSON-parsed payload.
ExecutorReceivesParsedArguments ==
    \A i \in 1..Len(execLog) :
        ~BadArguments(execLog[i].payload) =>
            execLog[i].args = JSONParse(execLog[i].payload).value

IsExecuteError(m) ==
    m.role = "tool" /\ m.content \in {ExecuteErrorContent(n) : n \in ToolNames}

ExecuteErrorIds ==
    LET errs == SelectSeq(allMessages, IsExecuteError)
    IN  [i \in 1..Len(errs) |-> errs[i].toolCallId]

SecondCallServedFromCache ==
    (pc = "returned" /\ hasCache /\ prev.valid /\ prev.messages = messages
        /\ prev.config = config) =>
        /\ providerCalls = 0
        /\ execLog = <<>>
        /\ returned.cost = 0
        /\ returned.messages = prev.history

Usable(name) == name # Absent /\ name # ""

\* the chain-level value of the claims: the chain's own, else the document's
ChainLevelProvider(in) ==
    IF in.kind = "single" THEN in.docProvider ELSE Coalesce(in.chainProvider, in.docProvider)

ChainLevelModel(in) ==
    IF in.kind = "single" THEN in.docModel ELSE CoalesceModel(in.chainModel, in.docModel)

ModelName(m) == m.name

\* C9: the effective provider is the output instruction's when present and
\* non-empty, else the chain-level one, else the engine default; the effective
\* model follows the same rule on model names, independently.
EffectiveProviderAndModelPrecedence ==
    (cfgOut.done /\ cfgOut.cfg.ok) =>
        /\ cfgOut.cfg.provider =
              (IF Usable(cfgIn.outProvider) THEN cfgIn.outProvider
               ELSE IF Usable(ChainLevelProvider(cfgIn)) THEN ChainLevelProvider(cfgIn)
               ELSE cfgIn.defProvider)
        /\ ModelName(cfgOut.cfg.model) =
              (IF ModelName(cfgIn.outModel) # "" THEN ModelName(cfgIn.outModel)
               ELSE IF ModelName(ChainLevelModel(cfgIn)) # ""
                    THEN ModelName(ChainLevelModel(cfgIn))
               ELSE ModelName(cfgIn.defModel))

ChainLevelTools(in) == IF in.kind = "single" THEN in.docTools ELSE in.chainTools

DeclaredTools(in) == Dedup(ChainLevelTools(in).names \o in.outTools.names)

\* C10: the effective tools are the chain-level names followed by the output
\* instruction's, without duplicates, in first-seen order; when neither declares
\* any, they are the engine-level default tools.
EffectiveToolsWithDefaults ==
    (cfgOut.done /\ cfgOut.cfg.ok) =>
        cfgOut.cfg.tools =
            (IF DeclaredTools(cfgIn) # <<>> THEN DeclaredTools(cfgIn)
             ELSE Dedup(cfgIn.defTools.names))

\* C11 (as claimed): a resolveConfig call whose output-level tools field is an
\* empty list ends exactly as the same call with that field null or undefined.
EmptyToolListFallsBackLikeNull ==
    (resOut.done /\ resIn.tools = Tools(<<>>)) =>
        resOut.out = resolveConfigOutcome([ResReply(resIn) EXCEPT !.tools = NoTools],
                                          ResDefaults(resIn))

\* C11 (amended): with the output-level tools field null or undefined the
\* effective tools are the default list without duplicates (none when there are
\* no defaults); with an empty list the effective tools are empty whatever the
\* defaults, and no default tool is looked up.
OnlyMissingToolListFallsBack ==
    /\ (resOut.done /\ resOut.out.ok /\ ~resIn.tools.present) =>
          resOut.out.tools = Dedup(resIn.defTools.names)
    /\ (resOut.done /\ resIn.tools = Tools(<<>>)) =>
          /\ resOut.out.ok => resOut.out.tools = <<>>
          /\ resOut.out.error # "Tool not found"

\* a call with an empty output-level list and a non-empty default list returned
EmptyToolListResolved ==
    /\ resOut.done
    /\ resOut.out.ok
    /\ resIn.tools = Tools(<<>>)
    /\ resIn.defTools = Tools(<<"t3">>)

ChosenProviderName(in) == IF Usable(in.provider) THEN in.provider ELSE in.defProvider

EffectiveToolNames(in) == IF in.tools.present THEN in.tools.names ELSE in.defTools.names

\* C12: resolveConfig throws whenever no level has a usable provider name, the
\* chosen provider name is not registered, no level has a model with a non-empty
\* name, or an effective tool name is not registered; a tool error names a tool
\* that is not registered.
ResolveConfigRaisesWhenUnresolvable ==
    resOut.done =>
        /\ (~Usable(resIn.provider) /\ ~Usable(resIn.defProvider)) => ~resOut.out.ok
        /\ ChosenProviderName(resIn) \notin RegisteredProviders => ~resOut.out.ok
        /\ (ModelName(resIn.model) = "" /\ ModelName(resIn.defModel) = "") => ~resOut.out.ok
        /\ (\E n \in Range(EffectiveToolNames(resIn)) : n \notin RegisteredTools) =>
              ~resOut.out.ok
        /\ resOut.out.error = "Tool not found" =>
              /\ resOut.out.names \in Range(EffectiveToolNames(resIn))
              /\ resOut.out.names \notin RegisteredTools

DeclaredChains(doc) == DOMAIN doc.deps

\* the names chain c lists in dependsOn; an undeclared chain lists none
ListedBy(doc, c) == IF c \in DeclaredChains(doc) THEN Range(doc.deps[c]) ELSE {}

RECURSIVE ReachableWithin(_, _, _)
\* the chains reached from the chains of `from` in at most k dependency steps
ReachableWithin(doc, from, k) ==
    IF k = 0 THEN from
    ELSE ReachableWithin(doc, from \cup UNION {ListedBy(doc, c) : c \in from}, k - 1)

\* chain c depends on itself, directly or through other chains
OnCycle(doc, c) ==
    c \in ReachableWithin(doc, ListedBy(doc, c), Cardinality(DeclaredChains(doc)))

HasCycle(doc) == \E c \in DeclaredChains(doc) : OnCycle(doc, c)

HasUndeclared(doc) ==
    \E c \in DeclaredChains(doc) : \E dep \in ListedBy(doc, c) : dep \notin DeclaredChains(doc)

DependencyError(out) == out.kind \in {"Circular", "Undeclared"}

\* C13: validateSchema throws for every dependency map with a cycle, a chain
\* that depends on itself included, and throws no dependency error for a map
\* that is acyclic and lists only declared chains.
CyclesRejectedAcyclicAccepted ==
    valOut.done =>
        /\ HasCycle(valDoc) => ~valOut.out.ok
        /\ (~HasCycle(valDoc) /\ ~HasUndeclared(valDoc)) => ~DependencyError(valOut.out)

\* a document with a chain that lists itself in dependsOn was rejected
SelfDependencyRejected ==
    /\ valOut.done
    /\ ~valOut.out.ok
    /\ \E c \in DeclaredChains(valDoc) : c \in ListedBy(valDoc, c)

\* C14: the chain a circular-dependency error names lies on a dependency cycle.
CircularErrorNamesChainOnCycle ==
    (valOut.done /\ valOut.out.kind = "Circular") => OnCycle(valDoc, valOut.out.chain)

\* C15: a document in which some chain lists an undeclared name is rejected,
\* and an undeclared-dependency error names a name that is not declared and a
\* declared chain that lists it.
UndeclaredDependencyRejected ==
    valOut.done =>
        /\ HasUndeclared(valDoc) => ~valOut.out.ok
        /\ valOut.out.kind = "Undeclared" =>
              /\ valOut.out.chain \notin DeclaredChains(valDoc)
              /\ valOut.out.other \in DeclaredChains(valDoc)
              /\ valOut.out.chain \in ListedBy(valDoc, valOut.out.other)

\* an undeclared name was met two steps below the chain the traversal started
\* at, which does not list it itself
UndeclaredFoundBelowStart ==
    /\ valOut.done
    /\ valOut.out.kind = "Undeclared"
    /\ valOut.out.other # 1
    /\ valOut.out.chain \notin ListedBy(valDoc, 1)

\* the positions of chain c's messages that are outputs carrying the id
OutputsWithId(doc, c, id) ==
    {i \in 1..Len(doc.tapes[c]) : doc.tapes[c][i].output /\ doc.tapes[c][i].id = id}

\* the ids an output carries explicitly; an empty string is no id to the
\* validation (instr.output.id is falsy) nor to executeChain
ExplicitIds == {"a", DEFAULT_OUTPUT_ID}

\* two outputs of chain c carry the same id of `ids`
RepeatsIdOf(doc, c, ids) == \E id \in ids : Cardinality(OutputsWithId(doc, c, id)) >= 2

\* some output of the document carries the default id before the last message
DefaultIdMisplaced(doc) ==
    \E c \in 1..Len(doc.tapes) : \E i \in OutputsWithId(doc, c, DEFAULT_OUTPUT_ID) :
        i # Len(doc.tapes[c])

DefaultIdBeforeLastOutputRejected ==
    valOut.done =>
        /\ (\E c \in 1..Len(valDoc.tapes) :
               \E i \in OutputsWithId(valDoc, c, DEFAULT_OUTPUT_ID) :
                  \E j \in (i + 1)..Len(valDoc.tapes[c]) : valDoc.tapes[c][j].output)
              => ~valOut.out.ok
        /\ valOut.out.kind = "DefaultNotLast" =>
              \E i \in OutputsWithId(valDoc, valOut.out.chain, DEFAULT_OUTPUT_ID) :
                  i # Len(valDoc.tapes[valOut.out.chain])

\* the default id on an output that another output follows was rejected with
\* the default-placement error
DefaultIdFollowedByOutput ==
    /\ valOut.done
    /\ valOut.out.kind = "DefaultNotLast"
    /\ \E i \in OutputsWithId(valDoc, valOut.out.chain, DEFAULT_OUTPUT_ID) :
          \E j \in (i + 1)..Len(valDoc.tapes[valOut.out.chain]) :
              valDoc.tapes[valOut.out.chain][j].output

\* the input names the document declares, at its top level or in a named chain
DeclaredInputs(doc) ==
    Range(doc.inputs) \cup UNION {Range(doc.chainInputs[c]) : c \in 1..Len(doc.chainInputs)}

\* C18: a document in which any chain, the top-level one or a named one,
\* declares an input named `outputs` or `chains` fails to load with the
\* reserved-input error, which names such an input.
ReservedInputRejectedInEveryChain ==
    (valOut.done /\ DeclaredInputs(valDoc) \cap BuiltinKeys # {}) =>
        /\ valOut.out.kind = "ReservedInput"
        /\ valOut.out.name \in DeclaredInputs(valDoc) \cap BuiltinKeys

\* C19: nothing is executed before the load call has validated the document,
\* and for a document that fails validation the load call throws: no program
\* function is returned, the program is never called and no provider, tool or
\* cache operation is performed.
NoExecutionWithoutValidLoad ==
    /\ ~valOut.done => (~program /\ programCalls = 0 /\ engineOps = 0)
    /\ (valOut.done /\ ~valOut.out.ok) => (~program /\ programCalls = 0 /\ engineOps = 0)
    /\ (programCalls > 0 \/ engineOps > 0) => (valOut.done /\ valOut.out.ok)

\* a load call threw on a document with a circular dependency
LoadThrewOnCircularDocument ==
    /\ valOut.done
    /\ valOut.out.kind = "Circular"
    /\ ~program

Failed(c) == chainState[c] = "failed"

\* C20: once the execution of a chain has raised, the invocation is rejected
\* with the error of a chain that raised (of that chain when it is the only
\* one, of the first to raise when several chains of a wave do) and it does
\* not return a CallResult.
ChainErrorRejectsInvocation ==
    (\E c \in Declared : Failed(c)) =>
        /\ callState = "rejected"
        /\ callState # "resolved"
        /\ callError \in Declared /\ Failed(callError)
        /\ \A c \in Declared : (\A d \in Declared \ {c} : ~Failed(d)) => callError = c

\* a chain of the second wave raised while another chain of that wave had
\* already finished: the first wave's results exist, the invocation rejected
ChainRaisedInLaterWave ==
    /\ Len(satisfied) > 0
    /\ \E c, d \in Range(next) : c # d /\ Failed(c) /\ chainState[d] = "done"
    /\ callState = "rejected"

\* the chain has run to its end: executeChain returned and _call settled
ChainRanToEnd ==
    /\ chState \in {"resolved", "rejected"}
    /\ chTape # <<>>
    /\ chIp > Len(chTape)

NoDefaultChain == chKind = "multi" /\ chName # DEFAULT_CHAIN_ID

AllNull(r) == r.output.null /\ r.content.null /\ r.value = JsonNull

\* C21: when the chain has run to its end and the default chain recorded no
\* output under the default id, or the document has no default chain, the
\* invocation resolves and output, content and value are null.
MissingDefaultOutputYieldsNulls ==
    (ChainRanToEnd /\ (NoDefaultChain \/ ~chOutputs[DEFAULT_OUTPUT_ID].present)) =>
        (chState = "resolved" /\ AllNull(chResult))

\* the chain's result as an entry of CallResult.chains
ChainEntry == [id |-> chName, messages |-> chMsgs, outputs |-> chOutputs]

Executed(type) == AtInstruction(type) /\ chIp' = chIp + 1

\* the output instruction's format, as the document had it at load, asks for JSON
RequestsJson(instr) == JsonTruthy(FormatJson(chLoaded, instr))

RecordedOutputsVisibleToLaterInstructions ==
    [][(chState = "running" /\ chIp' = chIp + 1) =>
          \A id \in OutputIds : chOutputs[id].present => chContext'[id] = chOutputs[id]]_vars

ClearKeepsRecordedOutputs ==
    [][(chInv' = chInv) =>
          \A id \in OutputIds : chOutputs[id].present =>
              /\ chOutputs'[id] = chOutputs[id]
              /\ chState' = "resolved" =>
                    \E e \in chResult'.chains : e.outputs[id] = chOutputs[id]]_vars

\* an invocation resolved after a clear that followed the output named a
OutputRecordedBeforeClearReturned ==
    /\ chState = "resolved"
    /\ Len(chTape) >= 3
    /\ chTape[1].type = "output" /\ chTape[1].id = "a"
    /\ chTape[2].type = "clear"
    /\ \E e \in chResult.chains : e.outputs["a"].present /\ e.outputs["a"].role = "assistant"

\* C30: the document's messages are what they were when the load call
\* returned, whatever invocations have run.
DocumentUnchangedByInvocations == chDoc = chLoaded

\* C25: an invocation starts with builtins.chains empty, and the context a
\* chain renders against holds no chain result of an earlier invocation.
BuiltinsStartEmptyInEveryInvocation ==
    /\ (callState = "loop" /\ satisfied = <<>>) =>
          \A c \in ChainNames : builtinsChains[c] = NoResult
    /\ \A X \in Declared : chainState[X] \in {"rendered", "done"} =>
          \A D \in ChainNames :
              seenAtRender[X][D] = NoResult \/ seenAtRender[X][D].inv = invNo

\* a tool message that reports rejected arguments or a throwing execute
IsToolFailure(m) ==
    m.role = "tool" /\ m.content \in {ParseErrorContent(n) : n \in ToolNames}
                                       \cup {ExecuteErrorContent(n) : n \in ToolNames}

\* the provider responses of the call with a tool call that failed
FailedRequests ==
    {k \in (Len(messages) + 1)..Len(allMessages) :
        \E j \in 1..Len(allMessages[k].toolCalls) :
            \E t \in ToolMessagesFor(allMessages[k].toolCalls[j].id) :
                IsToolFailure(allMessages[t])}

MaxRetries == 3

\* C29: once the request and MaxRetries retries of it have each ended in a
\* tool call whose arguments were rejected or whose execute threw, the call
\* has given up by throwing.
GivesUpAfterThreeRetries ==
    Cardinality(FailedRequests) > MaxRetries => pc = "threw"

TapeMirrors(msgs, tape) ==
    LET n == Len(msgs)
        appended == n = 0 \/ msgs[n].type # "output"
    IN  /\ Len(tape) = n + (IF appended THEN 1 ELSE 0)
        /\ \A i \in 1..n :
              /\ i <= Len(tape)
              /\ tape[i].type = msgs[i].type
              /\ tape[i].role = msgs[i].role
              /\ tape[i].system = msgs[i].system
              /\ i < n => tape[i].id = msgs[i].id
        /\ tape # <<>>
        /\ tape[Len(tape)].type = "output"
        /\ tape[Len(tape)].id =
              (IF appended \/ msgs[n].id = "" THEN DEFAULT_OUTPUT_ID ELSE msgs[n].id)

\* C31: for every accepted message list, the empty list included, an
\* invocation has built a tape of one instruction per message in order, plus
\* an appended output when the last message is no output, which ends with an
\* output that carries an id.
TapeBuiltForEveryMessageList ==
    chInv > 0 => TapeMirrors(chDoc, chTape)

\* the positions of the tape's outputs that carry an id
NamedOutputs(tape) == {i \in 1..Len(tape) : tape[i].type = "output" /\ tape[i].id # ""}

\* C32: in the tape built for a validated document the ids of the outputs
\* are pairwise distinct, and the reserved default id is carried by the last
\* instruction only.
TapeOutputIdsDistinct ==
    (chInv > 0 /\ chTape # <<>>) =>
        /\ \A i, j \in NamedOutputs(chTape) : chTape[i].id = chTape[j].id => i = j
        /\ \A i \in NamedOutputs(chTape) :
              chTape[i].id = DEFAULT_OUTPUT_ID => i = Len(chTape)

\* a tape of three outputs: one without id, a named one, and the appended
\* or unnamed last one that got the default id
NamedAndDefaultOutputs ==
    /\ chInv > 0
    /\ Len(chTape) = MaxMsgs
    /\ \E i, j \in 1..Len(chTape) :
          /\ i < j
          /\ chTape[i].type = "output" /\ chTape[j].type = "output"
          /\ {chTape[i].id, chTape[j].id} = {"", "a"}
    /\ chTape[Len(chTape)].id = DEFAULT_OUTPUT_ID
    /\ chDoc[Len(chDoc)].id = ""

\* C33: when executeOutput has returned after a cache miss, the suffix it
\* appended to the history is stored under the call's key, so a lookup issued
\* after the return finds it.
CacheWrittenBeforeReturn ==
    (pc = "returned" /\ setIssued) =>
        CacheGet(StoreKey) = Suffix(returned.messages, Len(messages))

\* C34: the chain goes on to its next output instruction, and calls
\* executeOutput for it, only when the output before it has fully completed:
\* no cache write of the earlier call is still under way.
NextInstructionAfterOutputCompleted ==
    [][(pc = "returned" /\ pc' = "lookup") => cachePending = {}]_vars

\* the result of the execution of chain c that is part of the current wave
CurrentRun(c) == [inv |-> invNo, run |-> runs[c]]

\* C35: within an invocation builtins.chains changes only when every chain
\* of the wave has returned; a chain that renders observes no result produced
\* by a chain execution of its own wave, and the result of an execution is in
\* builtins.chains only after that execution has returned.
BuiltinsChainsStableDuringWave ==
    [][/\ builtinsChains' # builtinsChains =>
             /\ callState = "wave"
             /\ \A c \in Range(next) : chainState[c] = "done"
       /\ \A c \in Declared :
             (builtinsChains'[c] # builtinsChains[c] /\ builtinsChains'[c] # NoResult) =>
                 chainState[c] = "done" /\ builtinsChains'[c] = CurrentRun(c)
       /\ \A c \in Declared :
             (chainState[c] = "started" /\ chainState'[c] = "rendered") =>
                 \A d \in Range(next) : seenAtRender'[c][d] # CurrentRun(d)
      ]_vars

\* in a wave of two chains one has returned and the other has yet to render,
\* and builtins.chains does not hold the result of the one that returned
ChainReturnedBeforeOtherRendered ==
    /\ callState = "wave"
    /\ \E c, d \in Range(next) :
          /\ c # d
          /\ chainState[c] = "done"
          /\ chainState[d] = "started"
          /\ builtinsChains[c] # CurrentRun(c)

\* C36: within one multi-chain invocation no declared chain is executed more
\* than once.
EachChainExecutedAtMostOnce ==
    \A c \in Declared : runs[c] <= 1

\* C37: for a validated multi-chain document, when every chain execution
\* completes, an invocation that has entered the scheduler loop resolves or
\* rejects.
SchedulerLoopTerminates ==
    (callState \in {"loop", "wave"}) ~> (callState \in {"resolved", "rejected"})

\* an invocation of a document of MaxChains chains resolved after more than
\* one wave
ResolvedAfterSeveralWaves ==
    /\ callState = "resolved"
    /\ Cardinality(Declared) = MaxChains
    /\ \E c \in Declared : runs[c] > 1

\* C38: when two invocations of one loaded program interleave, a chain of
\* either invocation renders against the results its own invocation produced
\* for its dependencies, never against results of the other invocation.
ChainsRenderAgainstOwnInvocation ==
    \A i \in Pair : \A c \in Declared :
        pairChain[i][c] \in {"rendered", "done"} =>
            \A d \in dependsOn[c] : pairSeen[i][c][d] = i

\* the message the caller takes as the answer of the call
ReturnedLast == returned.messages[Len(returned.messages)]

\* C39: when executeOutput has returned, on a cache hit or after the loop,
\* the last message of the returned history is no tool message and requests
\* no tool call (toolCalls absent or empty).
ReturnedHistoryEndsWithAnswer ==
    pc = "returned" =>
        /\ returned.messages # <<>>
        /\ ReturnedLast.role # "tool"
        /\ ~ReturnedLast.hasCalls \/ ReturnedLast.toolCalls = <<>>

\* the call returned after a round of tool calls, the tool message followed
\* by the provider's answer
ReturnedAfterToolRound ==
    /\ pc = "returned"
    /\ ~CacheHit(cached)
    /\ Len(returned.messages) > 2
    /\ returned.messages[Len(returned.messages) - 1].role = "tool"
    /\ ReturnedLast.role = "assistant"

\* the invocation has rejected and no other invocation starts in this step
StaysRejected == callState = "rejected" /\ invNo' = invNo

\* C40, as stated: once the invocation has rejected because a chain of the
\* wave failed, the other chains of the wave take no further step, so that
\* they render nothing, call no provider and no tool, and add no cost.
NoChainStepAfterRejection ==
    [][StaysRejected => chainState' = chainState]_vars

\* C40: once the invocation has rejected because a chain of the wave failed,
\* the rejection is final, no further wave is started and no result is
\* recorded for the invocation; the other chains of the wave are not
\* cancelled and run on.
NoWaveAfterRejection ==
    [][StaysRejected =>
          /\ callState' = "rejected"
          /\ callError' = callError
          /\ <<next, runs, satisfied, results, builtinsChains>>' =
                <<next, runs, satisfied, results, builtinsChains>>
      ]_vars

\* the invocation rejected in its second wave while another chain of the
\* wave had not returned
RejectedWithChainStillRunning ==
    /\ callState = "rejected"
    /\ satisfied # <<>>
    /\ \E c, d \in Range(next) : chainState[c] = "failed" /\ Running(d)


====
